---- MODULE Spec2Model ----
(***************************************************************************)
(* Equalizer: the server-side window controller (src/server/window.cpp),   *)
(* its swap-barrier packets, and the render node's frame bookkeeping       *)
(* (src/lib/client/node.h).                                                *)
(*                                                                         *)
(* The networking substrate (src/lib/net/node.h) and the eqPly channel's   *)
(* draw traversal (src/examples/eqPly/channel.cpp) follow.                 *)
(*                                                                         *)
(* The specifications of the module:                                       *)
(*   SpecWindow    init/exit life cycle of one server-side window          *)
(*   SpecSwap      swap groups: barrier planning, Window::update, swap     *)
(*   SpecFrame     the frame pipeline between the config and the nodes     *)
(*   SpecUsed      used counts of windows and pipes                        *)
(*   SpecLocal     one render node and its pipe threads                    *)
(*   SpecNet       connectivity of the eqNet::Node objects of a process    *)
(*   SpecDispatch  packet dispatch and re-dispatch of the receiver thread  *)
(*   SpecSession   sessions mapped by name on a server node                *)
(*   SpecDraw      Channel::_drawModel of eqPly                            *)
(*   SpecView      the pixel viewport of a window and its init reply       *)
(*   SpecRef       eqBase::RefPtr and the reference counts of its pointees *)
(*   SpecPart      eqPly channels drawing the ranges of a partition        *)
(*   SpecAgl       mouse events of the AGL event handler                   *)
(***************************************************************************)
EXTENDS Integers, Sequences, FiniteSets, TLC

\* ------------------------------------------------------------------ bounds
NChannels   == 2      \* channels of the window
MaxUsed     == 1      \* highest used refcount a channel is given
MaxCycles   == 2      \* init/exit life cycles the driver runs

NNodes      == 2      \* used nodes of the config
MaxFrames   == 3      \* frames the application starts
MaxLatency  == 2      \* highest latency the config is given

NWindows    == 2      \* windows of the swap-group configuration
NBarriers   == 1      \* barriers the server's node can hand out
MaxSwapFrames == 2    \* frames the config updates the windows for

NNetNodes   == 2      \* node objects of the process
MaxLaunch   == 2      \* launches the process starts
PacketSize  == 2      \* packet.size of the packets sent
MaxExtra    == 1      \* bytes of a string that do not fit into its packet
MaxPackets  == 3      \* packets the peer sends on the connection
NObjects    == 1      \* objects the commands wait for
NClients    == 2      \* nodes that map sessions on the server
NSessionNames == 2    \* names sessions are mapped by
MaxMapCalls == 3      \* mapSession calls made
TreeDepth   == 2      \* depth of the deepest model tree
MaxTreeNodes == 5     \* nodes of the largest model tree

NPipes      == 2      \* pipes of the used-count configuration
NPipeWindows == 3     \* windows of the used-count configuration
MaxWinUsed  == 2      \* highest used refcount a window is given

MaxCoord    == 1      \* largest x of a pixel viewport
MaxSize     == 1      \* largest width and height of a pixel viewport
MaxInits    == 2      \* inits of the window whose viewport is followed

NRefPtrs    == 3      \* RefPtr instances of the program
NPointees   == 2      \* reference counted objects
NDrawChannels == 2    \* channels that share a model by range

MaxDelta    == 2      \* largest mouse delta, in half pixels
MaxAglEvents == 3     \* events the AGL event handler produces
\* height of the menu bar of a decorated window, in pixels
EQ_AGL_MENUBARHEIGHT == 22

Channels    == 1..NChannels
Nodes       == 1..NNodes
Windows     == 1..NWindows
Barriers    == 1..NBarriers
FrameNumbers == 1..(MaxFrames + 1)
Pipes       == 1..NPipes
PipeWindows == 1..NPipeWindows
NetNodes    == 1..NNetNodes
ObjectIDs   == 1..NObjects
Clients     == 1..NClients
SessionNames == 1..NSessionNames
SessionIDs  == 1..(NSessionNames + 1)
NULL        == 0      \* Window::_pipe of a window without a parent

\* eqs::Window::State / eqs::Channel::State
STATE_STOPPED      == "STOPPED"
STATE_INITIALISING == "INITIALISING"
STATE_RUNNING      == "RUNNING"
STATE_STOPPING     == "STOPPING"
\* eqNet::Node::State; STATE_STOPPED is its initial state too
STATE_LAUNCHED     == "LAUNCHED"
STATE_CONNECTED    == "CONNECTED"
STATE_LISTENING    == "LISTENING"
States == {STATE_STOPPED, STATE_INITIALISING, STATE_RUNNING, STATE_STOPPING}

EQ_INVALID_ID == 0    \* no request pending; real request ids start at 1

\* A request of the request handler: not yet served, or served with a void*.
Unserved      == [served |-> FALSE, value |-> 0]
Served(ptr)   == [served |-> TRUE,  value |-> ptr]
\* (void*)b for a bool b, and (bool)p for a void* p
VoidPtr(b)    == IF b THEN 1 ELSE 0
ToBool(ptr)   == ptr # 0

VARIABLES
    \* ---- server-side window (eqs::Window)
    _state,             \* Window::_state
    _pendingRequestID,  \* Window::_pendingRequestID
    chUsed,             \* channel -> used refcount of the channel
    nChannels,          \* Window::_channels.size()
    chState,            \* channel -> Channel::_state
    chPending,          \* channel -> Channel::_pendingRequestID
    requests,           \* _requestHandler: registered id -> Unserved | value
    nextRequestID,      \* _requestHandler: next id registerRequest returns
    registered,         \* channels registered with the config
    toRender,           \* packets sent to the render side, in send order
    toServer,           \* reply packets on their way back to the server
    \* ---- the config thread inside a blocking sync call
    pc,                 \* "idle" | "syncInit" | "syncExit"
    todo,               \* waits the running sync call still has to do
    success,            \* the local `success` of the running sync call
    lastOp,             \* the operation that ran last
    lastResult,         \* what the last syncInit/syncExit returned
    opLog,              \* what the running (or last) operation did, in order
    nCycles,            \* startInit calls so far
    \* ---- render side outcomes (what the render process did)
    winInitResult,      \* result of the render window's configInit
    winExitResult,      \* result of the render window's configExit
    chInitResult,       \* channel -> result of its configInit
    chExitResult,       \* channel -> result of its configExit
    renderAlive,        \* the render node runs and its connection is up
    \* ---- frame pipeline: the config (server) ...
    latency,            \* Config::_latency
    threadModel,        \* IATTR_THREAD_MODEL of the nodes
    cfgPc,              \* where the application's frame loop stands
    cfgCurrentFrame,    \* last frame number the config has begun
    cfgFlushedFrame,    \* last frame number FRAME_FINISH was sent for
    cfgNodeFinished,    \* node -> last frame it reported finished
    issued,             \* the frame numbers begun so far, in order
    nodeQueue,          \* node -> commands on their way to the node thread
    replyQueue,         \* node -> FRAME_FINISH replies on their way back
    \* ---- ... and the render nodes (eq::Node)
    _currentFrame,      \* node -> Node::_currentFrame
    _unlockedFrame,     \* node -> Node::_unlockedFrame
    _finishedFrame,     \* node -> Node::_finishedFrame
    released,           \* node -> frame -> number of releaseFrame(frame) calls
    \* ---- swap groups: the server's windows and barriers ...
    swPhase,            \* "plan": the swap groups are being built; "run"
    swFrame,            \* the frame the config is updating
    swUpdated,          \* windows already updated for swFrame
    _masterSwapBarriers,\* window -> Window::_masterSwapBarriers
    _swapBarriers,      \* window -> Window::_swapBarriers
    barFree,            \* barriers the node has not handed out
    barHeight,          \* barrier -> participant count (Barrier::_height)
    barVersion,         \* barrier -> committed version
    barDirty,           \* barrier -> changed since the last commit
    winQueue,           \* window -> packets on their way to the render window
    lastUpdate,         \* window -> what its last update() did, in order
    \* ---- ... and the render windows, each on its own pipe thread
    rWaiting,           \* window -> barrier it is blocked in, or 0
    rReleased,          \* window -> the barrier it waits in has released it
    barEntered,         \* barrier -> participants entered and not released
    rEntered,           \* window -> barrier -> number of times entered
    rSwapped,           \* window -> number of swaps done
    rFrames,            \* window -> number of frames ended (WINDOW_END_FRAME)
    \* ---- used refcounts of windows and their pipes
    _used,              \* window -> Window::_used
    _pipe,              \* window -> Window::_pipe, NULL if it has no parent
    pipeUsed,           \* pipe -> Pipe::_used
    \* ---- one render node with its pipe threads
    lnNode,             \* the node's members, as NodeRec
    lnQueue,            \* commands on their way to the node thread
    pipeCurrentFrame,   \* pipe -> the frame the pipe thread has begun last
    pipeStage,          \* pipe -> "started" | "drawn" | "idle" in that frame
    pipeUnlockedFrame,  \* pipe -> last frame the pipe released locally
    \* ---- the eqNet::Node objects of one process
    nodeState,          \* node -> Node::_state
    _launchID,          \* node -> Node::_launchID
    _nodes,             \* Node::_nodes of the local node: the connected nodes
    netNextID,          \* next request id of the local node's request handler
    child,              \* node -> request ids of its children yet to connect
    connectBack,        \* node -> request id of the connect-back in flight
    localNode,          \* Node::_localNode
    netCall,            \* the application thread's call, see NoCall
    \* ---- the receiver thread of the local node and one connection
    wire,               \* packets sent on the connection, not yet received
    nSent,              \* packets sent so far
    _pendingRequests,   \* Node::_pendingRequests
    dispMapped,         \* the objects that are mapped
    dispLog,            \* the command invocations, in their order
    dispCycle,          \* new packets handled so far
    \* ---- sessions mapped by name on a server node
    srvSessions,        \* name -> id of the server's session, or EQ_INVALID_ID
    sessRequests,       \* map requests on their way to the server
    sessReplies,        \* map replies on their way back
    obtained,           \* (client, name, id) of the mapSession calls returned
    nMapCalls,          \* mapSession calls made so far
    \* ---- eqPly channel
    drawn,              \* the last _drawModel: tree, culling, range, rendered
    \* ---- the pixel viewport of a server-side window
    _pvp,               \* Window::_pvp
    _vp,                \* Window::_vp
    pipePVP,            \* _pipe->getPixelViewport(), NoPipe without a _pipe
    viewRequest,        \* the window's init request in the request handler
    viewInit,           \* the init packet on its way to the render side
    viewReply,          \* the init reply sent by the render side
    viewPc,             \* the statement of the reply handler to execute next
    viewOld,            \* the viewports when the init was started
    viewSeen,           \* the viewports the caller of syncInit has read
    viewInits,          \* inits started so far
    \* ---- eqBase::RefPtr instances and the objects they point to
    _ptr,               \* RefPtr -> RefPtr::_ptr
    refLive,            \* the RefPtr instances constructed and not destroyed
    refCount,           \* object -> its reference count
    refDeleted,         \* object -> unref has deleted it
    refZeroed,          \* object -> times its count has reached zero
    refCalls,           \* the ref / unref calls of the last operation
    refOp,              \* the last operation
    \* ---- the eqPly channels of a sort-last partition
    part,               \* tree, culling, range boundaries, what each drew
    \* ---- eq::AGLEventHandler
    _lastDX,            \* AGLEventHandler::_lastDX
    _lastDY,            \* AGLEventHandler::_lastDY
    aglEvents,          \* the events passed to _processEvent, in order
    aglKind,            \* the kind of the Carbon event of the last call
    aglOnBar            \* that event was located on the window's menu bar

swapVars  == <<swPhase, swFrame, swUpdated, _masterSwapBarriers, _swapBarriers,
               barFree, barHeight, barVersion, barDirty, winQueue, lastUpdate,
               rWaiting, rReleased, barEntered, rEntered, rSwapped, rFrames>>

frameVars == <<latency, threadModel, cfgPc, cfgCurrentFrame, cfgFlushedFrame,
               cfgNodeFinished, issued, nodeQueue, replyQueue, _currentFrame,
               _unlockedFrame, _finishedFrame, released>>

winVars == <<_state, _pendingRequestID, chUsed, nChannels, chState, chPending,
             requests, nextRequestID, registered, toRender, toServer, pc,
             todo, success, lastOp, lastResult, opLog, nCycles, winInitResult,
             winExitResult, chInitResult, chExitResult, renderAlive>>

usedVars == <<_used, _pipe, pipeUsed>>

localVars == <<lnNode, lnQueue, pipeCurrentFrame, pipeStage, pipeUnlockedFrame>>

netVars == <<nodeState, _launchID, _nodes, netNextID, child, connectBack,
             localNode, netCall>>

dispVars == <<wire, nSent, _pendingRequests, dispMapped, dispLog, dispCycle>>

sessVars == <<srvSessions, sessRequests, sessReplies, obtained, nMapCalls>>

viewVars == <<_pvp, _vp, pipePVP, viewRequest, viewInit, viewReply, viewPc,
              viewOld, viewSeen, viewInits>>

refVars == <<_ptr, refLive, refCount, refDeleted, refZeroed, refCalls, refOp>>

aglVars == <<_lastDX, _lastDY, aglEvents, aglKind, aglOnBar>>

\* the variables a specification leaves alone
coreVars     == <<winVars, frameVars, swapVars, usedVars, localVars>>
earlyVars    == <<coreVars, netVars, dispVars, sessVars, drawn>>
lateVars     == <<viewVars, refVars, part, aglVars>>
moreVars     == <<netVars, dispVars, sessVars, drawn, lateVars>>
notWinVars   == <<frameVars, swapVars, usedVars, localVars, moreVars>>
notFrameVars == <<winVars, swapVars, usedVars, localVars, moreVars>>
notSwapVars  == <<winVars, frameVars, usedVars, localVars, moreVars>>
notUsedVars  == <<winVars, frameVars, swapVars, localVars, moreVars>>
notLocalVars == <<winVars, swapVars, usedVars, cfgNodeFinished, nodeQueue,
                  replyQueue, _currentFrame, _unlockedFrame, _finishedFrame,
                  released, moreVars>>
notNetVars   == <<coreVars, dispVars, sessVars, drawn, lateVars>>
notDispVars  == <<coreVars, netVars, sessVars, drawn, lateVars>>
notSessVars  == <<coreVars, netVars, dispVars, drawn, lateVars>>
notDrawVars  == <<coreVars, netVars, dispVars, sessVars, lateVars>>
notViewVars  == <<earlyVars, refVars, part, aglVars>>
notRefVars   == <<earlyVars, viewVars, part, aglVars>>
notPartVars  == <<earlyVars, viewVars, refVars, aglVars>>
notAglVars   == <<earlyVars, viewVars, refVars, part>>

\* what a render-side configInit/configExit callback returned
NoResult    == "none"
Outcome(ok) == IF ok THEN "ok" ELSE "failed"

\* -------------------------------------------------------------- events
Ev(k, what, ch) == [k |-> k, what |-> what, ch |-> ch]
Pkt(type, id, ch, result) ==
    [type |-> type, requestID |-> id, ch |-> ch, result |-> result]

\* ------------------------------------------ server state as one record
\* The sequential code of one call is a composition of steps on this record.
Server == [state      |-> _state,
           pending    |-> _pendingRequestID,
           chState    |-> chState,
           chPending  |-> chPending,
           requests   |-> requests,
           nextID     |-> nextRequestID,
           registered |-> registered,
           out        |-> toRender,
           log        |-> opLog]

Apply(s) ==
    /\ _state'            = s.state
    /\ _pendingRequestID' = s.pending
    /\ chState'           = s.chState
    /\ chPending'         = s.chPending
    /\ requests'          = s.requests
    /\ nextRequestID'     = s.nextID
    /\ registered'        = s.registered
    /\ toRender'          = s.out
    /\ opLog'             = s.log

\* eqBase::RequestHandler
registerRequest(s) ==
    [s EXCEPT !.requests = @ @@ (s.nextID :> Unserved),
              !.nextID   = @ + 1]

serveRequest(reqs, id, ptr) ==
    IF id \in DOMAIN reqs THEN [reqs EXCEPT ![id] = Served(ptr)] ELSE reqs

unregisterRequest(reqs, id) ==
    [r \in (DOMAIN reqs) \ {id} |-> reqs[r]]

\* Window::_send
_send(s, type, id, ch) ==
    [s EXCEPT !.out = Append(@, Pkt(type, id, ch, FALSE)),
              !.log = Append(@, Ev("send", type, ch))]

\* Channel::isUsed
isUsed(c) == chUsed[c] # 0

\* ------------------------------------------------- eqs::Channel (server)
\* Channel::startInit: the channel's own split-phase start.
Channel_startInit(s, c) ==
    LET id == s.nextID
        s1 == registerRequest(s)
        s2 == [s1 EXCEPT !.chPending[c] = id,
                         !.log = Append(@, Ev("register", "channel", c))]
        s3 == _send(s2, "CHANNEL_INIT", id, c)
    IN  [s3 EXCEPT !.chState[c] = STATE_INITIALISING]

\* Channel::startExit
Channel_startExit(s, c) ==
    LET id == s.nextID
        s1 == registerRequest([s EXCEPT !.chState[c] = STATE_STOPPING])
        s2 == [s1 EXCEPT !.chPending[c] = id,
                         !.log = Append(@, Ev("register", "channel", c))]
    IN  _send(s2, "CHANNEL_EXIT", id, c)

\* ---------------------------------------------------- eqs::Window, init
\* Window::_sendInit
_sendInit(s) ==
    LET id == s.nextID
        s1 == registerRequest(s)
        s2 == [s1 EXCEPT !.pending = id,
                         !.log = Append(@, Ev("register", "window", 0))]
    IN  _send(s2, "WINDOW_INIT", id, 0)

\* the body of the channel loop of Window::startInit, channels i..nChannels
RECURSIVE startInitChannels(_, _)
startInitChannels(s, i) ==
    IF i > nChannels THEN s
    ELSE IF isUsed(i)
         THEN LET s1 == [s EXCEPT !.registered = @ \cup {i},
                                  !.log = Append(@, Ev("registerObject", "channel", i))]
                  s2 == _send(s1, "WINDOW_CREATE_CHANNEL", EQ_INVALID_ID, i)
              IN  startInitChannels(Channel_startInit(s2, i), i + 1)
         ELSE startInitChannels(s, i + 1)

startInit_initPacketLast(s) ==
    LET s1 == startInitChannels(s, 1)
        s2 == _sendInit(s1)
    IN  [s2 EXCEPT !.state = STATE_INITIALISING]

\* Window::startInit
startInit(s) ==
    LET s1 == _sendInit(s)
        s2 == startInitChannels(s1, 1)
    IN  [s2 EXCEPT !.state = STATE_INITIALISING]

\* The blocking waits of Window::syncInit, in the order the code does them:
\* channel->syncInit() of every used channel, then the window's own request.
Wait(who, c) == [who |-> who, ch |-> c]
RECURSIVE usedChannelWaits(_)
usedChannelWaits(i) ==
    IF i > nChannels THEN <<>>
    ELSE (IF isUsed(i) THEN <<Wait("channel", i)>> ELSE <<>>)
         \o usedChannelWaits(i + 1)

syncInitWaits_ownFirst == <<Wait("window", 0)>> \o usedChannelWaits(1)

syncInitWaits == usedChannelWaits(1) \o <<Wait("window", 0)>>

\* ---------------------------------------------------- eqs::Window, exit
\* the channel loop of Window::startExit
RECURSIVE startExitChannels(_, _)
startExitChannels(s, i) ==
    IF i > nChannels THEN s
    ELSE IF s.chState[i] = STATE_STOPPED
         THEN startExitChannels(s, i + 1)
         ELSE startExitChannels(Channel_startExit(s, i), i + 1)

\* Window::_sendExit
_sendExit(s) ==
    LET id == s.nextID
        s1 == registerRequest(s)
        s2 == [s1 EXCEPT !.pending = id,
                         !.log = Append(@, Ev("register", "window", 0))]
    IN  _send(s2, "WINDOW_EXIT", id, 0)

startExit_ownPacketFirst(s) ==
    LET s1 == [s EXCEPT !.state = STATE_STOPPING]
        s2 == _sendExit(s1)
    IN  startExitChannels(s2, 1)

\* Window::startExit
startExit(s) ==
    LET s1 == [s EXCEPT !.state = STATE_STOPPING]
        s2 == startExitChannels(s1, 1)
    IN  _sendExit(s2)

\* The blocking waits of Window::syncExit, in the order the code does them:
\* the window's own request, then channel->syncExit() of every channel that
\* is STOPPING.
RECURSIVE stoppingChannelWaits(_)
stoppingChannelWaits(i) ==
    IF i > nChannels THEN <<>>
    ELSE (IF chState[i] = STATE_STOPPING THEN <<Wait("channel", i)>> ELSE <<>>)
         \o stoppingChannelWaits(i + 1)

syncExitWaits_channelsFirst ==
    stoppingChannelWaits(1) \o <<Wait("window", 0)>>

syncExitWaits == <<Wait("window", 0)>> \o stoppingChannelWaits(1)

\* ------------------------------------------------ the blocking sync calls
\* RequestHandler::waitRequest returns once the request is served.
isServed(id) == id \in DOMAIN requests /\ requests[id].served

\* Channel::syncInit, from the point where its request is served
Channel_syncInit(s, c) ==
    LET id == s.chPending[c]
        ok == ToBool(s.requests[id].value)
    IN  [s EXCEPT !.requests     = unregisterRequest(@, id),
                  !.chPending[c] = EQ_INVALID_ID,
                  !.chState[c]   = IF ok THEN STATE_RUNNING ELSE @,
                  !.log          = Append(@, Ev("wait", "channel", c))]

\* Channel::syncExit, from the point where its request is served
Channel_syncExit(s, c) ==
    LET id == s.chPending[c]
    IN  [s EXCEPT !.requests     = unregisterRequest(@, id),
                  !.chPending[c] = EQ_INVALID_ID,
                  !.chState[c]   = STATE_STOPPED,
                  !.log          = Append(@, Ev("wait", "channel", c))]

waitOwnRequest_keepPending(s) ==
    [s EXCEPT !.requests = unregisterRequest(@, s.pending),
              !.log      = Append(@, Ev("wait", "window", 0))]

\* Window::syncInit / syncExit: waitRequest( _pendingRequestID ) and the
\* reset of _pendingRequestID that follows it
waitOwnRequest(s) ==
    [s EXCEPT !.requests = unregisterRequest(@, s.pending),
              !.pending  = EQ_INVALID_ID,
              !.log      = Append(@, Ev("wait", "window", 0))]

syncInitReturn_alwaysRunning(s, ok) == [s EXCEPT !.state = STATE_RUNNING]

\* Window::syncInit: the end of the function
syncInitReturn(s, ok) ==
    IF ok THEN [s EXCEPT !.state = STATE_RUNNING] ELSE s

syncExitDestroyChannel_keepRegistered(s, c) ==
    _send(s, "WINDOW_DESTROY_CHANNEL", EQ_INVALID_ID, c)

\* Window::syncExit: the body of the channel loop after channel->syncExit()
syncExitDestroyChannel(s, c) ==
    LET s1 == _send(s, "WINDOW_DESTROY_CHANNEL", EQ_INVALID_ID, c)
    IN  [s1 EXCEPT !.registered = @ \ {c},
                   !.log = Append(@, Ev("deregisterObject", "channel", c))]

\* Window::syncExit: the end of the function
syncExitReturn(s) == [s EXCEPT !.state = STATE_STOPPED]

remainingWaits_shortCircuit(waits, ok) ==
    IF ok THEN Tail(waits) ELSE <<>>

\* Window::syncInit / syncExit: a failed wait only clears `success`; the
\* loop goes on to the next channel and to the window's own request.
remainingWaits(waits, ok) == Tail(waits)

\* the request the wait w blocks on, and the value it is served with
waitID(w)    == IF w.who = "window" THEN _pendingRequestID ELSE chPending[w.ch]
waitValue(w) == ToBool(requests[waitID(w)].value)

\* -------------------------------------------- reply handlers (server)
_cmdInitReply_serveTrue(reqs, packet) ==
    serveRequest(reqs, packet.requestID, VoidPtr(TRUE))

\* Window::_cmdInitReply
_cmdInitReply(reqs, packet) ==
    serveRequest(reqs, packet.requestID, VoidPtr(packet.result))

\* Window::_cmdExitReply
_cmdExitReply(reqs, packet) ==
    serveRequest(reqs, packet.requestID, VoidPtr(TRUE))

\* Channel::_cmdInitReply / Channel::_cmdExitReply
Channel_cmdReply(reqs, packet) ==
    serveRequest(reqs, packet.requestID, VoidPtr(packet.result))

\* ------------------------------------------------------------ actions
renderVars == <<winInitResult, winExitResult, chInitResult, chExitResult,
                renderAlive>>
callVars   == <<pc, todo, success, lastOp, lastResult>>
serverVars == <<_state, _pendingRequestID, chState, chPending, requests,
                nextRequestID, registered, toRender, opLog>>

InitWindow ==
    /\ _state = STATE_STOPPED
    /\ _pendingRequestID = EQ_INVALID_ID
    /\ chUsed = [c \in Channels |-> 0]
    /\ nChannels = 0
    /\ chState = [c \in Channels |-> STATE_STOPPED]
    /\ chPending = [c \in Channels |-> EQ_INVALID_ID]
    /\ requests = <<>>
    /\ nextRequestID = 1
    /\ registered = {}
    /\ toRender = <<>>
    /\ toServer = <<>>
    /\ pc = "idle"
    /\ todo = <<>>
    /\ success = TRUE
    /\ lastOp = "none"
    /\ lastResult = TRUE
    /\ opLog = <<>>
    /\ nCycles = 0
    /\ winInitResult = NoResult
    /\ winExitResult = NoResult
    /\ chInitResult = [c \in Channels |-> NoResult]
    /\ chExitResult = [c \in Channels |-> NoResult]
    /\ renderAlive = TRUE

\* Window::addChannel: the loader gives the window its next channel, before
\* the window is initialised for the first time.
AddChannel ==
    /\ pc = "idle" /\ _state = STATE_STOPPED
    /\ nCycles = 0
    /\ nChannels < NChannels
    /\ nChannels' = nChannels + 1
    /\ UNCHANGED notWinVars
    /\ UNCHANGED <<serverVars, chUsed, toServer, callVars, nCycles, renderVars>>

\* The compound tree marks a channel used / unused while the window is down.
RefUsed(c) ==
    /\ pc = "idle" /\ _state = STATE_STOPPED
    /\ c <= nChannels
    /\ chUsed[c] < MaxUsed
    /\ chUsed' = [chUsed EXCEPT ![c] = @ + 1]
    /\ UNCHANGED notWinVars
    /\ UNCHANGED <<serverVars, nChannels, toServer, callVars, nCycles,
                   renderVars>>

UnrefUsed(c) ==
    /\ pc = "idle" /\ _state = STATE_STOPPED
    /\ chUsed[c] > 0
    /\ chUsed' = [chUsed EXCEPT ![c] = @ - 1]
    /\ UNCHANGED notWinVars
    /\ UNCHANGED <<serverVars, nChannels, toServer, callVars, nCycles,
                   renderVars>>

\* The parent (pipe) starts the init of a stopped window.
StartInit ==
    /\ pc = "idle" /\ _state = STATE_STOPPED
    /\ _pendingRequestID = EQ_INVALID_ID
    /\ nCycles < MaxCycles
    /\ renderAlive
    /\ Apply(startInit([Server EXCEPT !.log = <<>>]))
    /\ nCycles' = nCycles + 1
    /\ lastOp' = "startInit"
    /\ winInitResult' = NoResult
    /\ winExitResult' = NoResult
    /\ chInitResult' = [c \in Channels |-> NoResult]
    /\ chExitResult' = [c \in Channels |-> NoResult]
    /\ UNCHANGED notWinVars
    /\ UNCHANGED <<chUsed, nChannels, toServer, pc, todo, success, lastResult,
                   renderAlive>>

\* The parent calls syncInit after startInit.
SyncInitBegin ==
    /\ pc = "idle" /\ lastOp = "startInit"
    /\ pc' = "syncInit"
    /\ todo' = syncInitWaits
    /\ success' = TRUE
    /\ opLog' = <<>>
    /\ lastOp' = "syncInit"
    /\ UNCHANGED notWinVars
    /\ UNCHANGED <<_state, _pendingRequestID, chUsed, nChannels, chState,
                   chPending, requests, nextRequestID, registered, toRender,
                   toServer, lastResult, nCycles, renderVars>>

\* One blocking wait of syncInit; the last one runs the function to its end.
SyncInitStep ==
    /\ pc = "syncInit"
    /\ LET w == Head(todo)
       IN  /\ isServed(waitID(w))
           /\ LET ok   == success /\ waitValue(w)
                  rest == remainingWaits(todo, ok)
                  last == rest = <<>>
                  s1   == IF w.who = "window" THEN waitOwnRequest(Server)
                          ELSE Channel_syncInit(Server, w.ch)
              IN  /\ Apply(IF last THEN syncInitReturn(s1, ok) ELSE s1)
                  /\ success' = ok
                  /\ lastResult' = IF last THEN ok ELSE lastResult
                  /\ todo' = rest
                  /\ pc' = IF last THEN "idle" ELSE pc
    /\ UNCHANGED notWinVars
    /\ UNCHANGED <<chUsed, nChannels, toServer, lastOp, nCycles, renderVars>>

\* The parent starts the exit of every window that is not stopped.
StartExit ==
    /\ pc = "idle" /\ lastOp = "syncInit"
    /\ _state # STATE_STOPPED
    /\ Apply(startExit([Server EXCEPT !.log = <<>>]))
    /\ lastOp' = "startExit"
    /\ UNCHANGED notWinVars
    /\ UNCHANGED <<chUsed, nChannels, toServer, pc, todo, success, lastResult,
                   nCycles, renderVars>>

\* The parent calls syncExit on a stopping window.
SyncExitBegin ==
    /\ pc = "idle" /\ lastOp = "startExit"
    /\ pc' = "syncExit"
    /\ todo' = syncExitWaits
    /\ success' = TRUE
    /\ opLog' = <<>>
    /\ lastOp' = "syncExit"
    /\ UNCHANGED notWinVars
    /\ UNCHANGED <<_state, _pendingRequestID, chUsed, nChannels, chState,
                   chPending, requests, nextRequestID, registered, toRender,
                   toServer, lastResult, nCycles, renderVars>>

\* One blocking wait of syncExit; the last one runs the function to its end.
SyncExitStep ==
    /\ pc = "syncExit"
    /\ LET w == Head(todo)
       IN  /\ isServed(waitID(w))
           /\ LET ok   == success /\ waitValue(w)
                  rest == remainingWaits(todo, ok)
                  last == rest = <<>>
                  s1   == IF w.who = "window" THEN waitOwnRequest(Server)
                          ELSE syncExitDestroyChannel(
                                   Channel_syncExit(Server, w.ch), w.ch)
              IN  /\ Apply(IF last THEN syncExitReturn(s1) ELSE s1)
                  /\ success' = ok
                  /\ lastResult' = IF last THEN ok ELSE lastResult
                  /\ todo' = rest
                  /\ pc' = IF last THEN "idle" ELSE pc
    /\ UNCHANGED notWinVars
    /\ UNCHANGED <<chUsed, nChannels, toServer, lastOp, nCycles, renderVars>>

\* The render process handles the next packet; its callbacks may fail.
RenderHandle ==
    /\ renderAlive
    /\ toRender # <<>>
    /\ LET p == Head(toRender)
       IN  \E ok \in BOOLEAN :
           /\ toServer' =
                CASE p.type = "WINDOW_INIT"  ->
                       Append(toServer, Pkt("WINDOW_INIT_REPLY", p.requestID, 0, ok))
                  [] p.type = "WINDOW_EXIT"  ->
                       Append(toServer, Pkt("WINDOW_EXIT_REPLY", p.requestID, 0, FALSE))
                  [] p.type = "CHANNEL_INIT" ->
                       Append(toServer, Pkt("CHANNEL_INIT_REPLY", p.requestID, p.ch, ok))
                  [] p.type = "CHANNEL_EXIT" ->
                       Append(toServer, Pkt("CHANNEL_EXIT_REPLY", p.requestID, p.ch, ok))
                  [] OTHER -> toServer
           /\ winInitResult' = IF p.type = "WINDOW_INIT" THEN Outcome(ok)
                               ELSE winInitResult
           /\ winExitResult' = IF p.type = "WINDOW_EXIT" THEN Outcome(ok)
                               ELSE winExitResult
           /\ chInitResult' = IF p.type = "CHANNEL_INIT"
                              THEN [chInitResult EXCEPT ![p.ch] = Outcome(ok)]
                              ELSE chInitResult
           /\ chExitResult' = IF p.type = "CHANNEL_EXIT"
                              THEN [chExitResult EXCEPT ![p.ch] = Outcome(ok)]
                              ELSE chExitResult
    /\ toRender' = Tail(toRender)
    /\ UNCHANGED notWinVars
    /\ UNCHANGED <<_state, _pendingRequestID, chUsed, nChannels, chState,
                   chPending, requests, nextRequestID, registered, callVars,
                   opLog, nCycles, renderAlive>>

\* the window's init or exit packet has not been handled by the render side
ownRequestInFlight ==
    /\ _pendingRequestID # EQ_INVALID_ID
    /\ \E i \in 1..Len(toRender) :
          /\ toRender[i].type \in {"WINDOW_INIT", "WINDOW_EXIT"}
          /\ toRender[i].requestID = _pendingRequestID

\* The render node fails, or its connection is lost, while the window's
\* init or exit request is pending: it handles no further packet.
RenderFail ==
    /\ renderAlive
    /\ ownRequestInFlight
    /\ renderAlive' = FALSE
    /\ UNCHANGED notWinVars
    /\ UNCHANGED <<serverVars, chUsed, nChannels, toServer, callVars, nCycles,
                   winInitResult, winExitResult, chInitResult, chExitResult>>

\* The server's receiver thread dispatches the next reply packet.
ServerHandle ==
    /\ toServer # <<>>
    /\ LET p == Head(toServer)
       IN  requests' =
             CASE p.type = "WINDOW_INIT_REPLY" -> _cmdInitReply(requests, p)
               [] p.type = "WINDOW_EXIT_REPLY" -> _cmdExitReply(requests, p)
               [] OTHER                        -> Channel_cmdReply(requests, p)
    /\ toServer' = Tail(toServer)
    /\ UNCHANGED notWinVars
    /\ UNCHANGED <<_state, _pendingRequestID, chUsed, nChannels, chState,
                   chPending, nextRequestID, registered, toRender, callVars,
                   opLog, nCycles, renderVars>>

NextWindow ==
    \/ AddChannel
    \/ \E c \in Channels : RefUsed(c)
    \/ \E c \in Channels : UnrefUsed(c)
    \/ StartInit
    \/ SyncInitBegin
    \/ SyncInitStep
    \/ StartExit
    \/ SyncExitBegin
    \/ SyncExitStep
    \/ RenderHandle
    \/ ServerHandle

\* ======================================================================
\* The frame pipeline
\* ======================================================================
ASYNC      == "ASYNC"
DRAW_SYNC  == "DRAW_SYNC"
LOCAL_SYNC == "LOCAL_SYNC"
ThreadModels == {ASYNC, DRAW_SYNC, LOCAL_SYNC}

Cmd(c, f) == [cmd |-> c, frameID |-> 0, frameNumber |-> f]

\* ------------------------------------------------- eq::Node (render side)
\* One node's members, the count of its releaseFrame calls, its replies.
NodeRec(n) == [currentFrame  |-> _currentFrame[n],
               unlockedFrame |-> _unlockedFrame[n],
               finishedFrame |-> _finishedFrame[n],
               released      |-> released[n],
               replies       |-> replyQueue[n]]

ApplyNode(n, r) ==
    /\ _currentFrame'  = [_currentFrame  EXCEPT ![n] = r.currentFrame]
    /\ _unlockedFrame' = [_unlockedFrame EXCEPT ![n] = r.unlockedFrame]
    /\ _finishedFrame' = [_finishedFrame EXCEPT ![n] = r.finishedFrame]
    /\ released'       = [released       EXCEPT ![n] = r.released]
    /\ replyQueue'     = [replyQueue     EXCEPT ![n] = r.replies]

startFrame_previous(nd, frameNumber) ==
    [nd EXCEPT !.currentFrame = frameNumber - 1]

\* Node::startFrame
startFrame(nd, frameNumber) == [nd EXCEPT !.currentFrame = frameNumber]

\* Node::releaseFrame: signal the completion of a frame to the parent
releaseFrame(nd, frameNumber) ==
    [nd EXCEPT !.finishedFrame = frameNumber,
               !.released = IF frameNumber \in DOMAIN @
                            THEN [@ EXCEPT ![frameNumber] = @ + 1] ELSE @,
               !.replies  = Append(@, Cmd("FRAME_FINISH_REPLY", frameNumber))]

\* Node::releaseFrameLocal
releaseFrameLocal(nd, frameNumber) == [nd EXCEPT !.unlockedFrame = frameNumber]

frameStart_noRelease(nd, frameID, frameNumber) ==
    startFrame(nd, frameNumber)

\* Node::frameStart: has to call startFrame(); releases the local
\* synchronization at once if the thread model is async
frameStart(nd, frameID, frameNumber) ==
    LET nd1 == startFrame(nd, frameNumber)
    IN  IF threadModel = ASYNC THEN releaseFrameLocal(nd1, frameNumber) ELSE nd1

\* Node::frameDrawFinish
frameDrawFinish(nd, frameID, frameNumber) ==
    IF threadModel = DRAW_SYNC THEN releaseFrameLocal(nd, frameNumber) ELSE nd

\* Node::frameTasksFinish
frameTasksFinish(nd, frameID, frameNumber) ==
    IF threadModel = LOCAL_SYNC THEN releaseFrameLocal(nd, frameNumber) ELSE nd

frameFinish_nextFrame(nd, frameID, frameNumber) ==
    releaseFrame(nd, frameNumber + 1)

frameFinish_twice(nd, frameID, frameNumber) ==
    releaseFrame(releaseFrame(nd, frameNumber), frameNumber)

\* Node::frameFinish
frameFinish(nd, frameID, frameNumber) == releaseFrame(nd, frameNumber)

\* Node::_cmdFrameStart, _cmdFrameDrawFinish, _cmdFrameTasksFinish,
\* _cmdFrameFinish: the callback a command runs
handleCommand(nd, c) ==
    CASE c.cmd = "FRAME_START" ->
           frameStart(nd, c.frameID, c.frameNumber)
      [] c.cmd = "FRAME_DRAW_FINISH" ->
           frameDrawFinish(nd, c.frameID, c.frameNumber)
      [] c.cmd = "FRAME_TASKS_FINISH" ->
           frameTasksFinish(nd, c.frameID, c.frameNumber)
      [] c.cmd = "FRAME_FINISH" ->
           frameFinish(nd, c.frameID, c.frameNumber)

\* ------------------------------------------------------ Config (server)
InitFrame ==
    /\ latency = 1
    /\ threadModel = DRAW_SYNC
    /\ cfgPc = "config"
    /\ cfgCurrentFrame = 0
    /\ cfgFlushedFrame = 0
    /\ cfgNodeFinished = [n \in Nodes |-> 0]
    /\ issued = <<>>
    /\ nodeQueue = [n \in Nodes |-> <<>>]
    /\ replyQueue = [n \in Nodes |-> <<>>]
    /\ _currentFrame = [n \in Nodes |-> 0]
    /\ _unlockedFrame = [n \in Nodes |-> 0]
    /\ _finishedFrame = [n \in Nodes |-> 0]
    /\ released = [n \in Nodes |-> [f \in FrameNumbers |-> 0]]

nodeVars == <<_currentFrame, _unlockedFrame, _finishedFrame, released>>

\* The configuration sets the latency and thread model before the first frame.
Configure(l, tm) ==
    /\ cfgPc = "config"
    /\ latency' = l
    /\ threadModel' = tm
    /\ cfgPc' = "idle"
    /\ UNCHANGED notFrameVars
    /\ UNCHANGED <<cfgCurrentFrame, cfgFlushedFrame, cfgNodeFinished, issued,
                   nodeQueue, replyQueue, nodeVars>>

RECURSIVE finishCommands(_, _)
finishCommands(from, to) ==
    IF from > to THEN <<>>
    ELSE <<Cmd("FRAME_FINISH", from)>> \o finishCommands(from + 1, to)

\* The commands of frame f for one node: start, draw and task completion,
\* and the finish of every frame that leaves the latency window and has not
\* been flushed yet.
frameCommands(f) ==
    <<Cmd("FRAME_START", f), Cmd("FRAME_DRAW_FINISH", f),
      Cmd("FRAME_TASKS_FINISH", f)>>
    \o finishCommands(cfgFlushedFrame + 1, f - latency)

\* Config::startFrame: begin the next frame on every used node.
CfgStartFrame ==
    /\ cfgPc = "idle"
    /\ cfgCurrentFrame < MaxFrames
    /\ LET f == cfgCurrentFrame + 1
       IN  /\ cfgCurrentFrame' = f
           /\ issued' = Append(issued, f)
           /\ nodeQueue' = [n \in Nodes |-> nodeQueue[n] \o frameCommands(f)]
           /\ cfgFlushedFrame' = IF f - latency > cfgFlushedFrame
                                 THEN f - latency ELSE cfgFlushedFrame
    /\ cfgPc' = "started"
    /\ UNCHANGED notFrameVars
    /\ UNCHANGED <<latency, threadModel, cfgNodeFinished, replyQueue, nodeVars>>

\* Config::finishFrame: returns once frame (current - latency) is finished
\* on every used node.
CfgFinishFrame ==
    /\ cfgPc = "started"
    /\ \A n \in Nodes : cfgNodeFinished[n] >= cfgCurrentFrame - latency
    /\ cfgPc' = "idle"
    /\ UNCHANGED notFrameVars
    /\ UNCHANGED <<latency, threadModel, cfgCurrentFrame, cfgFlushedFrame,
                   cfgNodeFinished, issued, nodeQueue, replyQueue, nodeVars>>

\* Config::finishAllFrames: finish every frame still in the latency window
CfgFinishAllFrames ==
    /\ cfgPc = "idle"
    /\ cfgFlushedFrame < cfgCurrentFrame
    /\ nodeQueue' = [n \in Nodes |-> nodeQueue[n] \o
                        finishCommands(cfgFlushedFrame + 1, cfgCurrentFrame)]
    /\ cfgFlushedFrame' = cfgCurrentFrame
    /\ cfgPc' = "finishAll"
    /\ UNCHANGED notFrameVars
    /\ UNCHANGED <<latency, threadModel, cfgCurrentFrame, cfgNodeFinished,
                   issued, replyQueue, nodeVars>>

CfgFinishAllFramesReturn ==
    /\ cfgPc = "finishAll"
    /\ \A n \in Nodes : cfgNodeFinished[n] >= cfgCurrentFrame
    /\ cfgPc' = "idle"
    /\ UNCHANGED notFrameVars
    /\ UNCHANGED <<latency, threadModel, cfgCurrentFrame, cfgFlushedFrame,
                   cfgNodeFinished, issued, nodeQueue, replyQueue, nodeVars>>

\* The server's handler of a node's FRAME_FINISH reply
CfgFrameFinishReply(n) ==
    /\ replyQueue[n] # <<>>
    /\ cfgNodeFinished' =
          [cfgNodeFinished EXCEPT ![n] = Head(replyQueue[n]).frameNumber]
    /\ replyQueue' = [replyQueue EXCEPT ![n] = Tail(@)]
    /\ UNCHANGED notFrameVars
    /\ UNCHANGED <<latency, threadModel, cfgPc, cfgCurrentFrame,
                   cfgFlushedFrame, issued, nodeQueue, nodeVars>>

\* The node thread handles its next command (Node::_cmdFrameStart,
\* _cmdFrameDrawFinish, _cmdFrameTasksFinish, _cmdFrameFinish).
NodeHandle(n) ==
    /\ nodeQueue[n] # <<>>
    /\ LET c  == Head(nodeQueue[n])
           nd == NodeRec(n)
       IN  ApplyNode(n, handleCommand(nd, c))
    /\ nodeQueue' = [nodeQueue EXCEPT ![n] = Tail(@)]
    /\ UNCHANGED notFrameVars
    /\ UNCHANGED <<latency, threadModel, cfgPc, cfgCurrentFrame,
                   cfgFlushedFrame, cfgNodeFinished, issued>>

NextFrame ==
    \/ \E l \in 0..MaxLatency, tm \in ThreadModels : Configure(l, tm)
    \/ CfgStartFrame
    \/ CfgFinishFrame
    \/ CfgFinishAllFrames
    \/ CfgFinishAllFramesReturn
    \/ \E n \in Nodes : CfgFrameFinishReply(n)
    \/ \E n \in Nodes : NodeHandle(n)

\* ======================================================================
\* One render node and its pipe threads: local synchronisation
\* ======================================================================
waitFrameStarted_noWait(nd, frameNumber) == TRUE

\* Node::waitFrameStarted returns once _currentFrame >= frameNumber
waitFrameStarted(nd, frameNumber) == nd.currentFrame >= frameNumber

\* the last frame pipe p has drawn, and the last it has finished all tasks of
PipeDrawnFrame(p)    == IF pipeStage[p] = "started"
                        THEN pipeCurrentFrame[p] - 1 ELSE pipeCurrentFrame[p]
PipeFinishedFrame(p) == IF pipeStage[p] = "idle"
                        THEN pipeCurrentFrame[p] ELSE pipeCurrentFrame[p] - 1

\* Pipe::waitFrameLocal / Pipe::waitFrameFinished return once this holds
Pipe_waitFrameLocal(p, frameNumber)    == pipeUnlockedFrame[p] >= frameNumber
Pipe_waitFrameFinished(p, frameNumber) == PipeFinishedFrame(p) >= frameNumber

frameDrawFinishWaits_none(frameNumber) == TRUE

\* Node::frameDrawFinish waits for the pipes to release the local
\* synchronization if the thread model is draw_sync
frameDrawFinishWaits(frameNumber) ==
    threadModel = DRAW_SYNC =>
       \A p \in Pipes : Pipe_waitFrameLocal(p, frameNumber)

frameTasksFinishWaits_none(frameNumber) == TRUE

\* Node::frameTasksFinish waits for the pipes to release the local
\* synchronization if the thread model is local_sync
frameTasksFinishWaits(frameNumber) ==
    threadModel = LOCAL_SYNC =>
       \A p \in Pipes : Pipe_waitFrameLocal(p, frameNumber)

\* Node::_frameFinish synchronizes the pipe threads before frameFinish runs
frameFinishWaits(frameNumber) ==
    \A p \in Pipes : Pipe_waitFrameFinished(p, frameNumber)

\* what the node thread blocks on inside the handler of command c
nodeCanHandle(c) ==
    CASE c.cmd = "FRAME_START"        -> TRUE
      [] c.cmd = "FRAME_DRAW_FINISH"  -> frameDrawFinishWaits(c.frameNumber)
      [] c.cmd = "FRAME_TASKS_FINISH" -> frameTasksFinishWaits(c.frameNumber)
      [] c.cmd = "FRAME_FINISH"       -> frameFinishWaits(c.frameNumber)

InitLocal ==
    /\ lnNode = [currentFrame  |-> 0,
                 unlockedFrame |-> 0,
                 finishedFrame |-> 0,
                 released      |-> [f \in FrameNumbers |-> 0],
                 replies       |-> <<>>]
    /\ lnQueue = <<>>
    /\ pipeCurrentFrame = [p \in Pipes |-> 0]
    /\ pipeStage = [p \in Pipes |-> "idle"]
    /\ pipeUnlockedFrame = [p \in Pipes |-> 0]

pipeVars == <<pipeCurrentFrame, pipeStage, pipeUnlockedFrame>>

\* The commands of the config's next frame reach the node; the config begins
\* a frame once the frame that leaves the latency window is finished.
LocalBeginFrame ==
    /\ cfgPc = "idle"
    /\ cfgCurrentFrame < MaxFrames
    /\ lnNode.finishedFrame >= cfgCurrentFrame - latency
    /\ LET f == cfgCurrentFrame + 1
       IN  /\ cfgCurrentFrame' = f
           /\ issued' = Append(issued, f)
           /\ lnQueue' = lnQueue \o frameCommands(f)
           /\ cfgFlushedFrame' = IF f - latency > cfgFlushedFrame
                                 THEN f - latency ELSE cfgFlushedFrame
    /\ UNCHANGED notLocalVars
    /\ UNCHANGED <<latency, threadModel, cfgPc, lnNode, pipeVars>>

\* The node thread handles its next command, once the waits of the
\* command's callback are over.
LocalNodeHandle ==
    /\ lnQueue # <<>>
    /\ nodeCanHandle(Head(lnQueue))
    /\ lnNode' = handleCommand(lnNode, Head(lnQueue))
    /\ lnQueue' = Tail(lnQueue)
    /\ UNCHANGED notLocalVars
    /\ UNCHANGED <<latency, threadModel, cfgPc, cfgCurrentFrame,
                   cfgFlushedFrame, issued, pipeVars>>

\* Pipe::frameStart: the pipe thread begins its next frame once the node has
\* started it; async releases the local synchronization at once.
PipeFrameStart(p) ==
    /\ cfgPc = "idle"
    /\ pipeStage[p] = "idle"
    /\ waitFrameStarted(lnNode, pipeCurrentFrame[p] + 1)
    /\ pipeCurrentFrame' = [pipeCurrentFrame EXCEPT ![p] = @ + 1]
    /\ pipeStage' = [pipeStage EXCEPT ![p] = "started"]
    /\ pipeUnlockedFrame' =
          IF threadModel = ASYNC
          THEN [pipeUnlockedFrame EXCEPT ![p] = pipeCurrentFrame[p] + 1]
          ELSE pipeUnlockedFrame
    /\ UNCHANGED notLocalVars
    /\ UNCHANGED <<latency, threadModel, cfgPc, cfgCurrentFrame,
                   cfgFlushedFrame, issued, lnNode, lnQueue>>

\* Pipe::frameDrawFinish: the pipe's last draw of the frame is done;
\* draw_sync releases the local synchronization.
PipeFrameDrawFinish(p) ==
    /\ pipeStage[p] = "started"
    /\ pipeStage' = [pipeStage EXCEPT ![p] = "drawn"]
    /\ pipeUnlockedFrame' =
          IF threadModel = DRAW_SYNC
          THEN [pipeUnlockedFrame EXCEPT ![p] = pipeCurrentFrame[p]]
          ELSE pipeUnlockedFrame
    /\ UNCHANGED notLocalVars
    /\ UNCHANGED <<latency, threadModel, cfgPc, cfgCurrentFrame,
                   cfgFlushedFrame, issued, lnNode, lnQueue, pipeCurrentFrame>>

\* Pipe::frameFinish: readback and assembly of the frame are done;
\* local_sync releases the local synchronization.
PipeFrameFinish(p) ==
    /\ pipeStage[p] = "drawn"
    /\ pipeStage' = [pipeStage EXCEPT ![p] = "idle"]
    /\ pipeUnlockedFrame' =
          IF threadModel = LOCAL_SYNC
          THEN [pipeUnlockedFrame EXCEPT ![p] = pipeCurrentFrame[p]]
          ELSE pipeUnlockedFrame
    /\ UNCHANGED notLocalVars
    /\ UNCHANGED <<latency, threadModel, cfgPc, cfgCurrentFrame,
                   cfgFlushedFrame, issued, lnNode, lnQueue, pipeCurrentFrame>>

NextLocal ==
    \/ \E l \in 0..MaxLatency, tm \in ThreadModels : Configure(l, tm)
    \/ LocalBeginFrame
    \/ LocalNodeHandle
    \/ \E p \in Pipes : PipeFrameStart(p)
    \/ \E p \in Pipes : PipeFrameDrawFinish(p)
    \/ \E p \in Pipes : PipeFrameFinish(p)

\* ======================================================================
\* Swap groups
\* ======================================================================
\* The latency of the swap-group configuration: the default.
swapLatency == 1

\* The configuration of the swap-group windows: channel c of window w is
\* used by the compound tree iff c <= w.
swapChannelUsed(w, c) == c <= w

\* --------------------------------------------- the server's swap state
Swap == [queue   |-> winQueue,
         log     |-> lastUpdate,
         height  |-> barHeight,
         version |-> barVersion,
         dirty   |-> barDirty,
         master  |-> _masterSwapBarriers,
         swap    |-> _swapBarriers,
         free    |-> barFree]

ApplySwap(s) ==
    /\ winQueue'            = s.queue
    /\ lastUpdate'          = s.log
    /\ barHeight'           = s.height
    /\ barVersion'          = s.version
    /\ barDirty'            = s.dirty
    /\ _masterSwapBarriers' = s.master
    /\ _swapBarriers'       = s.swap
    /\ barFree'             = s.free

SwapPkt(type, b, v) == [type |-> type, barrierID |-> b, barrierVersion |-> v]

\* Window::_send, for window w
swap_send(s, w, type, b, v) ==
    [s EXCEPT !.queue[w] = Append(@, SwapPkt(type, b, v)),
              !.log[w]   = Append(@, SwapPkt(type, b, v))]

\* eqNet::Barrier::increase
Barrier_increase(s, b) ==
    [s EXCEPT !.height[b] = @ + 1, !.dirty[b] = TRUE]

\* eqNet::Barrier::commit: a changed barrier gets its next version
Barrier_commit(s, w, b) ==
    LET s1 == IF s.dirty[b]
              THEN [s EXCEPT !.version[b] = @ + 1, !.dirty[b] = FALSE]
              ELSE s
    IN  [s1 EXCEPT !.log[w] = Append(@, SwapPkt("commit", b, s1.version[b]))]

addSwapBarrier_noIncrease(s, w, barrier) ==
    [s EXCEPT !.swap[w] = Append(@, barrier)]

\* Window::addSwapBarrier
addSwapBarrier(s, w, barrier) ==
    LET s1 == Barrier_increase(s, barrier)
    IN  [s1 EXCEPT !.swap[w] = Append(@, barrier)]

\* Window::newSwapBarrier, with the barrier node->getBarrier() returns
newSwapBarrier(s, w, barrier) ==
    LET s1 == [s EXCEPT !.free = @ \ {barrier},
                        !.height[barrier] = 0,
                        !.master[w] = Append(@, barrier)]
    IN  addSwapBarrier(s1, w, barrier)

\* eqs::Node::releaseBarrier: the barrier goes back to the node's pool
Node_releaseBarrier(s, barrier) == [s EXCEPT !.free = @ \cup {barrier}]

resetSwapBarriers_noRelease(s, w) ==
    [s EXCEPT !.master[w] = <<>>, !.swap[w] = <<>>]

\* Window::resetSwapBarriers
resetSwapBarriers(s, w) ==
    LET RECURSIVE releaseMasters(_, _)
        releaseMasters(r, i) ==
            IF i > Len(r.master[w]) THEN r
            ELSE releaseMasters(Node_releaseBarrier(r, r.master[w][i]), i + 1)
        s1 == releaseMasters(s, 1)
    IN  [s1 EXCEPT !.master[w] = <<>>, !.swap[w] = <<>>]

\* Window::_updateSwap: the commit loop over _masterSwapBarriers
RECURSIVE commitMasters(_, _, _)
commitMasters(s, w, i) ==
    IF i > Len(s.master[w]) THEN s
    ELSE commitMasters(Barrier_commit(s, w, s.master[w][i]), w, i + 1)

\* Window::_updateSwap: the packet loop over _swapBarriers
RECURSIVE sendBarriers(_, _, _)
sendBarriers(s, w, i) ==
    IF i > Len(s.swap[w]) THEN s
    ELSE LET b == s.swap[w][i]
         IN  sendBarriers(swap_send(s, w, "WINDOW_BARRIER", b, s.version[b]),
                          w, i + 1)

_updateSwap_alwaysFinish(s, w) ==
    LET s1 == commitMasters(s, w, 1)
        s2 == swap_send(s1, w, "WINDOW_FINISH", 0, 0)
        s3 == sendBarriers(s2, w, 1)
    IN  swap_send(s3, w, "WINDOW_SWAP", 0, 0)

_updateSwap_swapFirst(s, w) ==
    LET s1 == commitMasters(s, w, 1)
        s2 == swap_send(s1, w, "WINDOW_SWAP", 0, 0)
        s3 == IF s2.swap[w] # <<>>
              THEN swap_send(s2, w, "WINDOW_FINISH", 0, 0) ELSE s2
    IN  sendBarriers(s3, w, 1)

\* Window::_updateSwap
_updateSwap(s, w) ==
    LET s1 == commitMasters(s, w, 1)
        s2 == IF s1.swap[w] # <<>>
              THEN swap_send(s1, w, "WINDOW_FINISH", 0, 0) ELSE s1
        s3 == sendBarriers(s2, w, 1)
    IN  swap_send(s3, w, "WINDOW_SWAP", 0, 0)

\* Channel::update: the draw tasks of channel c
Channel_update(s, w, c, frameID) == swap_send(s, w, "CHANNEL_TASKS", c, 0)

\* Window::update: the channel loop
RECURSIVE updateChannels(_, _, _, _)
updateChannels(s, w, i, frameID) ==
    IF i > NChannels THEN s
    ELSE IF swapChannelUsed(w, i)
         THEN updateChannels(Channel_update(s, w, i, frameID), w, i + 1, frameID)
         ELSE updateChannels(s, w, i + 1, frameID)

update_swapBeforeDraw(s, w, frameID) ==
    LET s1 == swap_send(s, w, "WINDOW_START_FRAME", 0, 0)
        s2 == _updateSwap(s1, w)
        s3 == updateChannels(s2, w, 1, frameID)
    IN  swap_send(s3, w, "WINDOW_END_FRAME", 0, 0)

\* Window::update
update(s, w, frameID) ==
    LET s1 == swap_send(s, w, "WINDOW_START_FRAME", 0, 0)
        s2 == updateChannels(s1, w, 1, frameID)
        s3 == _updateSwap(s2, w)
    IN  swap_send(s3, w, "WINDOW_END_FRAME", 0, 0)

\* ------------------------------------------------------------ actions
InitSwap ==
    /\ swPhase = "plan"
    /\ swFrame = 0
    /\ swUpdated = {}
    /\ _masterSwapBarriers = [w \in Windows |-> <<>>]
    /\ _swapBarriers = [w \in Windows |-> <<>>]
    /\ barFree = Barriers
    /\ barHeight = [b \in Barriers |-> 0]
    /\ barVersion = [b \in Barriers |-> 0]
    /\ barDirty = [b \in Barriers |-> FALSE]
    /\ winQueue = [w \in Windows |-> <<>>]
    /\ lastUpdate = [w \in Windows |-> <<>>]
    /\ rWaiting = [w \in Windows |-> 0]
    /\ rReleased = [w \in Windows |-> FALSE]
    /\ barEntered = [b \in Barriers |-> {}]
    /\ rEntered = [w \in Windows |-> [b \in Barriers |-> 0]]
    /\ rSwapped = [w \in Windows |-> 0]
    /\ rFrames = [w \in Windows |-> 0]

renderSwapVars == <<rWaiting, rReleased, barEntered, rEntered, rSwapped,
                    rFrames>>
InSeq(q, x)    == \E i \in 1..Len(q) : q[i] = x

\* The planner opens a swap group: window w, which has no group yet,
\* becomes the master of a barrier.
NewSwapBarrier(w) ==
    /\ swPhase = "plan"
    /\ _swapBarriers[w] = <<>>
    /\ barFree # {}
    /\ LET barrier == CHOOSE b \in barFree : \A o \in barFree : b <= o
       IN  ApplySwap(newSwapBarrier(Swap, w, barrier))
    /\ UNCHANGED notSwapVars
    /\ UNCHANGED <<swPhase, swFrame, swUpdated, renderSwapVars>>

\* The planner adds window w, which has no group yet, to the swap group of
\* a barrier handed out.
AddSwapBarrier(w, barrier) ==
    /\ swPhase = "plan"
    /\ barrier \notin barFree
    /\ _swapBarriers[w] = <<>>
    /\ ApplySwap(addSwapBarrier(Swap, w, barrier))
    /\ UNCHANGED notSwapVars
    /\ UNCHANGED <<swPhase, swFrame, swUpdated, renderSwapVars>>

\* The planner drops the swap groups it has built: it resets the swap
\* barriers of every window.
ResetSwapBarriers ==
    /\ swPhase = "plan"
    /\ \E w \in Windows : _swapBarriers[w] # <<>>
    /\ LET RECURSIVE resetFrom(_, _)
           resetFrom(s, w) ==
               IF w > NWindows THEN s
               ELSE resetFrom(resetSwapBarriers(s, w), w + 1)
       IN  ApplySwap(resetFrom(Swap, 1))
    /\ UNCHANGED notSwapVars
    /\ UNCHANGED <<swPhase, swFrame, swUpdated, renderSwapVars>>

\* The config begins the update of the next frame, once the frame that
\* leaves the latency window has ended on every window.
SwapBeginFrame ==
    /\ swFrame < MaxSwapFrames
    /\ \/ swPhase = "plan"
       \/ swPhase = "run" /\ swUpdated = Windows
    /\ \A w \in Windows : rFrames[w] >= swFrame - swapLatency
    /\ swPhase' = "run"
    /\ swFrame' = swFrame + 1
    /\ swUpdated' = {}
    /\ UNCHANGED notSwapVars
    /\ UNCHANGED <<_masterSwapBarriers, _swapBarriers, barFree, barHeight,
                   barVersion, barDirty, winQueue, lastUpdate, renderSwapVars>>

\* The config's update reaches window w.
Update(w) ==
    /\ swPhase = "run"
    /\ w \notin swUpdated
    /\ ApplySwap(update([Swap EXCEPT !.log[w] = <<>>], w, swFrame))
    /\ swUpdated' = swUpdated \cup {w}
    /\ UNCHANGED notSwapVars
    /\ UNCHANGED <<swPhase, swFrame, renderSwapVars>>

\* eqNet::Barrier::enter, arrival: the render window enters the barrier of
\* the packet at the head of its queue; the arrival that completes the
\* participant count releases everyone who waits in the barrier.
RenderEnterBarrier(w) ==
    /\ winQueue[w] # <<>>
    /\ Head(winQueue[w]).type = "WINDOW_BARRIER"
    /\ rWaiting[w] = 0
    /\ LET b   == Head(winQueue[w]).barrierID
           in  == barEntered[b] \cup {w}
           all == Cardinality(in) >= barHeight[b]
       IN  /\ rWaiting' = [rWaiting EXCEPT ![w] = b]
           /\ rEntered' = [rEntered EXCEPT ![w][b] = @ + 1]
           /\ barEntered' = [barEntered EXCEPT ![b] = IF all THEN {} ELSE in]
           /\ rReleased' = [v \in Windows |->
                              IF all /\ v \in in THEN TRUE ELSE rReleased[v]]
    /\ UNCHANGED notSwapVars
    /\ UNCHANGED <<swPhase, swFrame, swUpdated, _masterSwapBarriers,
                   _swapBarriers, barFree, barHeight, barVersion, barDirty,
                   winQueue, lastUpdate, rSwapped, rFrames>>

\* eqNet::Barrier::enter, return: a released window leaves the barrier.
RenderLeaveBarrier(w) ==
    /\ rWaiting[w] # 0
    /\ rReleased[w]
    /\ rWaiting' = [rWaiting EXCEPT ![w] = 0]
    /\ rReleased' = [rReleased EXCEPT ![w] = FALSE]
    /\ winQueue' = [winQueue EXCEPT ![w] = Tail(@)]
    /\ UNCHANGED notSwapVars
    /\ UNCHANGED <<swPhase, swFrame, swUpdated, _masterSwapBarriers,
                   _swapBarriers, barFree, barHeight, barVersion, barDirty,
                   lastUpdate, barEntered, rEntered, rSwapped, rFrames>>

\* The render window handles any other packet; WINDOW_SWAP swaps the buffers.
RenderWindowHandle(w) ==
    /\ winQueue[w] # <<>>
    /\ Head(winQueue[w]).type # "WINDOW_BARRIER"
    /\ rSwapped' = IF Head(winQueue[w]).type = "WINDOW_SWAP"
                   THEN [rSwapped EXCEPT ![w] = @ + 1] ELSE rSwapped
    /\ rFrames' = IF Head(winQueue[w]).type = "WINDOW_END_FRAME"
                  THEN [rFrames EXCEPT ![w] = @ + 1] ELSE rFrames
    /\ winQueue' = [winQueue EXCEPT ![w] = Tail(@)]
    /\ UNCHANGED notSwapVars
    /\ UNCHANGED <<swPhase, swFrame, swUpdated, _masterSwapBarriers,
                   _swapBarriers, barFree, barHeight, barVersion, barDirty,
                   lastUpdate, rWaiting, rReleased, barEntered, rEntered>>

\* the window's life cycle with a render node that may fail
NextWindowFail ==
    \/ NextWindow
    \/ RenderFail

NextSwap ==
    \/ \E w \in Windows : NewSwapBarrier(w)
    \/ \E w \in Windows, b \in Barriers : AddSwapBarrier(w, b)
    \/ ResetSwapBarriers
    \/ SwapBeginFrame
    \/ \E w \in Windows : Update(w)
    \/ \E w \in Windows : RenderEnterBarrier(w)
    \/ \E w \in Windows : RenderLeaveBarrier(w)
    \/ \E w \in Windows : RenderWindowHandle(w)

\* ======================================================================
\* Used refcounts
\* ======================================================================
UsedRec == [used |-> _used, pipeUsed |-> pipeUsed]

ApplyUsed(u) ==
    /\ _used'    = u.used
    /\ pipeUsed' = u.pipeUsed

\* Pipe::refUsed / Pipe::unrefUsed
Pipe_refUsed(u, p)   == [u EXCEPT !.pipeUsed[p] = @ + 1]
Pipe_unrefUsed(u, p) == [u EXCEPT !.pipeUsed[p] = @ - 1]

refUsed_noPropagation(u, w) == [u EXCEPT !.used[w] = @ + 1]

\* Window::refUsed
refUsed(u, w) ==
    LET u1 == [u EXCEPT !.used[w] = @ + 1]
    IN  IF _pipe[w] # NULL THEN Pipe_refUsed(u1, _pipe[w]) ELSE u1

\* Window::unrefUsed
unrefUsed(u, w) ==
    LET u1 == [u EXCEPT !.used[w] = @ - 1]
    IN  IF _pipe[w] # NULL THEN Pipe_unrefUsed(u1, _pipe[w]) ELSE u1

\* Window::_construct: a new window is unused and has no parent
InitUsed ==
    /\ _used = [w \in PipeWindows |-> 0]
    /\ _pipe = [w \in PipeWindows |-> NULL]
    /\ pipeUsed = [p \in Pipes |-> 0]

\* Pipe::addWindow: the loader attaches a window, which no compound uses
\* yet, to its pipe.
PipeAddWindow(p, w) ==
    /\ _pipe[w] = NULL
    /\ _used[w] = 0
    /\ _pipe' = [_pipe EXCEPT ![w] = p]
    /\ UNCHANGED notUsedVars
    /\ UNCHANGED <<_used, pipeUsed>>

\* A compound starts to use a channel of window w.
WindowRefUsed(w) ==
    /\ _used[w] < MaxWinUsed
    /\ ApplyUsed(refUsed(UsedRec, w))
    /\ UNCHANGED notUsedVars
    /\ UNCHANGED _pipe

\* A compound that used a channel of window w gives it up.
WindowUnrefUsed(w) ==
    /\ _used[w] > 0
    /\ ApplyUsed(unrefUsed(UsedRec, w))
    /\ UNCHANGED notUsedVars
    /\ UNCHANGED _pipe

NextUsed ==
    \/ \E p \in Pipes, w \in PipeWindows : PipeAddWindow(p, w)
    \/ \E w \in PipeWindows : WindowRefUsed(w)
    \/ \E w \in PipeWindows : WindowUnrefUsed(w)

\* ---------------------------------------------------------------------------
\* eqNet::Node (src/lib/net/node.h): the node objects of one process, their
\* connectivity state, the application thread calling listen / connect /
\* initConnect / syncConnect / checkConnection / send on them, the children
\* launched for them and the receiver thread of the local node.
\* ---------------------------------------------------------------------------

\* What the connection descriptions of a node yield when they are tried:
\* a description is reachable, none is but the node can be launched, or neither.
ENV_DIRECT == "direct"
ENV_LAUNCH == "launch"
ENV_FAIL   == "fail"
Envs == {ENV_DIRECT, ENV_LAUNCH, ENV_FAIL}

\* The members of the node objects the connect functions read and write.
NetRec ==
    [state    |-> nodeState,
     launchID |-> _launchID,
     nodes    |-> _nodes,
     nextID   |-> netNextID,
     child    |-> child]

ApplyNet(s) ==
    /\ nodeState' = s.state
    /\ _launchID' = s.launchID
    /\ _nodes'    = s.nodes
    /\ netNextID' = s.nextID
    /\ child'     = s.child

\* bool Node::isConnected() const
isConnected(s, n) == s.state[n] = STATE_CONNECTED

\* bool Node::isLocal() const
isLocal(s, n) == s.state[n] = STATE_LISTENING

_addConnectedNode_keepState(s, n) ==
    [s EXCEPT !.nodes = @ \cup {n}]

\* Node::_addConnectedNode: the handshake with the peer has completed.
_addConnectedNode(s, n) ==
    [s EXCEPT !.state[n] = STATE_CONNECTED, !.nodes = @ \cup {n}]

\* Node::_launch: spawns the child, which is given the id of the request the
\* connect-back has to carry; the id is remembered in _launchID.
_launch(s, n) ==
    [s EXCEPT !.state[n]    = STATE_LAUNCHED,
              !.launchID[n] = s.nextID,
              !.nextID      = @ + 1,
              !.child[n]    = @ \cup {s.nextID}]

\* What a failed connection attempt does to the node: the connection is closed
\* and the state is the one before the call.
failedConnect_stopped(s, n, pre) ==
    [s EXCEPT !.state[n] = STATE_STOPPED, !.launchID[n] = EQ_INVALID_ID]

failedConnect(s, n, pre) ==
    [s EXCEPT !.state[n] = pre, !.launchID[n] = EQ_INVALID_ID]

\* bool Node::initConnect(): connected already, or the handshake over a
\* reachable description, or the launch; false and no change otherwise.
initConnect(s, n, env) ==
    IF isConnected(s, n) THEN [s |-> s, ret |-> TRUE]
    ELSE IF s.state[n] # STATE_STOPPED \/ localNode = NULL
    THEN [s |-> s, ret |-> FALSE]
    ELSE IF env = ENV_DIRECT THEN [s |-> _addConnectedNode(s, n), ret |-> TRUE]
    ELSE IF env = ENV_LAUNCH /\ s.nextID <= MaxLaunch
    THEN [s |-> _launch(s, n), ret |-> TRUE]
    ELSE [s |-> s, ret |-> FALSE]

\* Does the connect-back carrying requestID answer the launch of node n?
launchMatches_anyID(s, n, requestID) ==
    s.state[n] = STATE_LAUNCHED

launchMatches(s, n, requestID) ==
    /\ s.state[n] = STATE_LAUNCHED
    /\ s.launchID[n] # EQ_INVALID_ID
    /\ s.launchID[n] = requestID

\* Node::handleConnect for the connect-back of a launched child: the handshake
\* is answered and the node connected if the request id is the one of the
\* outstanding launch; any other connection is closed again.
handleConnect(s, n, requestID) ==
    IF launchMatches(s, n, requestID) THEN _addConnectedNode(s, n) ELSE s

\* bool Node::checkConnection(): the branch it takes in a state.
CHECK_TRUE    == "true"
CHECK_CONNECT == "connect"
CHECK_FALSE   == "false"
checkConnection(state) ==
    IF state = STATE_CONNECTED \/ state = STATE_LISTENING THEN CHECK_TRUE
    ELSE IF state = STATE_STOPPED THEN CHECK_CONNECT
    ELSE CHECK_FALSE

\* Connection::send of a frame of total bytes: the bytes it wrote.
Written(total) == 0..total

\* bool Node::send( const Packet& packet )
send(written, size) == written = size

\* bool Node::send( Packet& packet, const std::string& string )
sendString(written, size) == written >= size

\* the call of the application thread that returned last, or is blocked
NoCall ==
    [op |-> "none", node |-> NULL, pre |-> STATE_STOPPED,
     post |-> STATE_STOPPED, ret |-> FALSE, done |-> TRUE,
     connectCalled |-> FALSE, size |-> 0, total |-> 0, written |-> 0]

Returned(op, n, pre, post, ret, cc) ==
    [NoCall EXCEPT !.op = op, !.node = n, !.pre = pre, !.post = post,
                   !.ret = ret, !.connectCalled = cc]

Blocked(op, n, pre, cc, size, total) ==
    [NoCall EXCEPT !.op = op, !.node = n, !.pre = pre, !.post = pre,
                   !.done = FALSE, !.connectCalled = cc, !.size = size,
                   !.total = total]

InitNet ==
    /\ nodeState  = [n \in NetNodes |-> STATE_STOPPED]
    /\ _launchID  = [n \in NetNodes |-> EQ_INVALID_ID]
    /\ _nodes     = {}
    /\ netNextID  = 1
    /\ child      = [n \in NetNodes |-> {}]
    /\ connectBack = [n \in NetNodes |-> EQ_INVALID_ID]
    /\ localNode  = NULL
    /\ netCall    = NoCall

\* bool Node::listen( connection ): the listener is installed, the receiver
\* thread started, and the first listening node becomes the local node.
Listen(n, ok) ==
    /\ netCall.done
    /\ LET pre == nodeState[n]
           good == ok /\ pre = STATE_STOPPED
           post == IF good THEN STATE_LISTENING ELSE pre
       IN /\ nodeState' = [nodeState EXCEPT ![n] = post]
          /\ localNode' = IF good /\ localNode = NULL THEN n ELSE localNode
          /\ netCall' = Returned("listen", n, pre, post, good, FALSE)
    /\ UNCHANGED <<_launchID, _nodes, netNextID, child, connectBack>>
    /\ UNCHANGED notNetVars

\* bool Node::initConnect()
InitConnect(n, env) ==
    /\ netCall.done
    /\ nodeState[n] \in {STATE_STOPPED, STATE_CONNECTED}
    /\ LET r == initConnect(NetRec, n, env)
       IN /\ ApplyNet(r.s)
          /\ netCall' = Returned("initConnect", n, nodeState[n], r.s.state[n],
                                 r.ret, FALSE)
    /\ UNCHANGED <<connectBack, localNode>>
    /\ UNCHANGED notNetVars

\* bool Node::syncConnect(): the join of initConnect; blocks while the node is
\* launched and not yet connected.
SyncConnect(n) ==
    /\ netCall.done
    /\ nodeState[n] \in {STATE_LAUNCHED, STATE_CONNECTED}
    /\ netCall' = Blocked("syncConnect", n, nodeState[n], FALSE, 0, 0)
    /\ UNCHANGED <<nodeState, _launchID, _nodes, netNextID, child,
                   connectBack, localNode>>
    /\ UNCHANGED notNetVars

\* bool Node::connect(): initConnect, and the join if that launched the node.
Connect(n, env) ==
    /\ netCall.done
    /\ nodeState[n] \in {STATE_STOPPED, STATE_CONNECTED}
    /\ LET pre == nodeState[n]
           r == initConnect(NetRec, n, env)
       IN /\ ApplyNet(r.s)
          /\ netCall' = IF r.ret /\ ~isConnected(r.s, n)
                        THEN Blocked("connect", n, pre, TRUE, 0, 0)
                        ELSE Returned("connect", n, pre, r.s.state[n], r.ret,
                                      TRUE)
    /\ UNCHANGED <<connectBack, localNode>>
    /\ UNCHANGED notNetVars

\* bool Node::checkConnection()
CheckConnection(n, env) ==
    /\ netCall.done
    /\ LET pre == nodeState[n]
           path == checkConnection(pre)
           r == IF path = CHECK_CONNECT THEN initConnect(NetRec, n, env)
                ELSE [s |-> NetRec, ret |-> path = CHECK_TRUE]
           cc == path = CHECK_CONNECT
       IN /\ ApplyNet(r.s)
          /\ netCall' = IF cc /\ r.ret /\ ~isConnected(r.s, n)
                        THEN Blocked("checkConnection", n, pre, cc, 0, 0)
                        ELSE Returned("checkConnection", n, pre, r.s.state[n],
                                      r.ret, cc)
    /\ UNCHANGED <<connectBack, localNode>>
    /\ UNCHANGED notNetVars

\* The write of Node::send once checkConnection has returned true: the frame
\* of the plain overload is the packet, the one of the string overload the
\* packet and what of the string does not fit into it.
SendResult(op, written, size) ==
    IF op = "send" THEN send(written, size) ELSE sendString(written, size)

\* bool Node::send( const Packet& ) and bool Node::send( Packet&, string )
Send(n, op, env, extra) ==
    /\ netCall.done
    /\ LET pre == nodeState[n]
           path == checkConnection(pre)
           r == IF path = CHECK_CONNECT THEN initConnect(NetRec, n, env)
                ELSE [s |-> NetRec, ret |-> path = CHECK_TRUE]
           cc == path = CHECK_CONNECT
           total == PacketSize + extra
       IN /\ ApplyNet(r.s)
          /\ IF cc /\ r.ret /\ ~isConnected(r.s, n)
             THEN netCall' = Blocked(op, n, pre, cc, PacketSize, total)
             ELSE IF ~r.ret
             THEN netCall' = [Returned(op, n, pre, r.s.state[n], FALSE, cc)
                              EXCEPT !.size = PacketSize, !.total = total]
             ELSE \E written \in Written(total) :
                    netCall' = [Returned(op, n, pre, r.s.state[n],
                                         SendResult(op, written, PacketSize),
                                         cc)
                                EXCEPT !.size = PacketSize, !.total = total,
                                       !.written = written]
    /\ UNCHANGED <<connectBack, localNode>>
    /\ UNCHANGED notNetVars

\* The blocked call goes on: the launched node has connected back.
ConnectJoin ==
    /\ ~netCall.done
    /\ nodeState[netCall.node] = STATE_CONNECTED
    /\ LET n == netCall.node
           op == netCall.op
       IN /\ _launchID' = [_launchID EXCEPT ![n] = EQ_INVALID_ID]
          /\ IF op \in {"send", "sendString"}
             THEN \E written \in Written(netCall.total) :
                    netCall' = [netCall EXCEPT
                                  !.done = TRUE, !.post = STATE_CONNECTED,
                                  !.ret = SendResult(op, written, netCall.size),
                                  !.written = written]
             ELSE netCall' = [netCall EXCEPT !.done = TRUE, !.ret = TRUE,
                                             !.post = STATE_CONNECTED]
    /\ UNCHANGED <<nodeState, _nodes, netNextID, child, connectBack,
                   localNode>>
    /\ UNCHANGED notNetVars

\* The blocked call gives up: the launch timeout has elapsed with no
\* connect-back.
ConnectTimeout ==
    /\ ~netCall.done
    /\ nodeState[netCall.node] = STATE_LAUNCHED
    /\ LET n == netCall.node
           s == failedConnect(NetRec, n, netCall.pre)
       IN /\ ApplyNet(s)
          /\ netCall' = [netCall EXCEPT !.done = TRUE, !.ret = FALSE,
                                        !.post = s.state[n]]
    /\ UNCHANGED <<connectBack, localNode>>
    /\ UNCHANGED notNetVars

\* A launched child connects back to the listener of its parent with the
\* request id of its client arguments.
ChildConnectBack(n) ==
    /\ connectBack[n] = EQ_INVALID_ID
    /\ \E requestID \in child[n] :
         /\ connectBack' = [connectBack EXCEPT ![n] = requestID]
         /\ child' = [child EXCEPT ![n] = @ \ {requestID}]
    /\ UNCHANGED <<nodeState, _launchID, _nodes, netNextID, localNode,
                   netCall>>
    /\ UNCHANGED notNetVars

\* Receiver thread, CONNECT event.
HandleConnect(n) ==
    /\ connectBack[n] # EQ_INVALID_ID
    /\ ApplyNet(handleConnect(NetRec, n, connectBack[n]))
    /\ connectBack' = [connectBack EXCEPT ![n] = EQ_INVALID_ID]
    /\ UNCHANGED <<localNode, netCall>>
    /\ UNCHANGED notNetVars

\* bool Node::disconnect( Node* node )
Disconnect(n) ==
    /\ netCall.done
    /\ nodeState[n] = STATE_CONNECTED
    /\ nodeState' = [nodeState EXCEPT ![n] = STATE_STOPPED]
    /\ _nodes' = _nodes \ {n}
    /\ netCall' = Returned("disconnect", n, STATE_CONNECTED, STATE_STOPPED,
                           TRUE, FALSE)
    /\ UNCHANGED <<_launchID, netNextID, child, connectBack, localNode>>
    /\ UNCHANGED notNetVars

NextNet ==
    \/ \E n \in NetNodes, ok \in BOOLEAN : Listen(n, ok)
    \/ \E n \in NetNodes, env \in Envs : InitConnect(n, env)
    \/ \E n \in NetNodes : SyncConnect(n)
    \/ \E n \in NetNodes, env \in Envs : Connect(n, env)
    \/ \E n \in NetNodes, env \in Envs : CheckConnection(n, env)
    \/ ConnectJoin
    \/ ConnectTimeout
    \/ \E n \in NetNodes : ChildConnectBack(n)
    \/ \E n \in NetNodes : HandleConnect(n)
    \/ \E n \in NetNodes : Disconnect(n)

\* ---------------------------------------------------------------------------
\* eqNet::Node, receiver thread: the packets of one connection, their dispatch
\* and the re-dispatch of the packets a command has answered with RESCHEDULE
\* (Node::_handleRequest, dispatchPacket, _redispatchPackets, _pendingRequests).
\* A command needs an object to be mapped, or nothing, and maps an object, or
\* nothing; it answers RESCHEDULE while what it needs is not mapped.
\* ---------------------------------------------------------------------------
COMMAND_HANDLED    == "HANDLED"
COMMAND_RESCHEDULE == "RESCHEDULE"

NoObject == EQ_INVALID_ID
PacketKinds == [needs : ObjectIDs \cup {NoObject},
                maps  : ObjectIDs \cup {NoObject}]

\* what the receiver thread reads and writes while it handles a packet
DispRec ==
    [pending |-> _pendingRequests, mapped |-> dispMapped, log |-> dispLog,
     cycle |-> dispCycle]

ApplyDisp(s) ==
    /\ _pendingRequests' = s.pending
    /\ dispMapped' = s.mapped
    /\ dispLog' = s.log
    /\ dispCycle' = s.cycle

\* the command function of a packet
command(s, packet) ==
    IF packet.needs # NoObject /\ packet.needs \notin s.mapped
    THEN [s |-> s, result |-> COMMAND_RESCHEDULE]
    ELSE [s |-> [s EXCEPT !.mapped =
                    IF packet.maps = NoObject THEN @ ELSE @ \cup {packet.maps}],
          result |-> COMMAND_HANDLED]

\* CommandResult Node::dispatchPacket( node, packet ): runs the command and
\* notes the invocation.
dispatchPacket(s, packet, isNew) ==
    LET r == command(s, packet)
    IN [s |-> [r.s EXCEPT !.log = Append(@, [id |-> packet.id,
                                             result |-> r.result,
                                             new |-> isNew,
                                             cycle |-> s.cycle])],
        result |-> r.result]

\* the traversal of the pending packets, rest being those not yet visited
RECURSIVE redispatchFrom(_, _)
redispatchFrom(s, rest) ==
    IF rest = <<>> THEN s
    ELSE LET packet == Head(rest)
             r == dispatchPacket(s, packet, FALSE)
             kept == IF r.result = COMMAND_RESCHEDULE
                     THEN r.s
                     ELSE [r.s EXCEPT !.pending =
                             SelectSeq(@, LAMBDA q : q.id # packet.id)]
         IN redispatchFrom(kept, Tail(rest))

_redispatchPackets_dropping(s) ==
    [redispatchFrom(s, s.pending) EXCEPT !.pending = <<>>]

\* void Node::_redispatchPackets(): one traversal of _pendingRequests
_redispatchPackets(s) == redispatchFrom(s, s.pending)

\* the packet the receiver reads next from the connection
recvPacket_newest(w) ==
    [packet |-> w[Len(w)], rest |-> SubSeq(w, 1, Len(w) - 1)]

recvPacket(w) == [packet |-> Head(w), rest |-> Tail(w)]

\* void Node::_handleRequest( node ): a new packet is dispatched, put on
\* _pendingRequests if the answer is RESCHEDULE, and the pending packets are
\* traversed.
_handleRequest(s, packet) ==
    LET c == [s EXCEPT !.cycle = @ + 1]
        r == dispatchPacket(c, packet, TRUE)
        q == IF r.result = COMMAND_RESCHEDULE
             THEN [r.s EXCEPT !.pending = Append(@, packet)]
             ELSE r.s
    IN _redispatchPackets(q)

InitDispatch ==
    /\ wire = <<>>
    /\ nSent = 0
    /\ _pendingRequests = <<>>
    /\ dispMapped = {}
    /\ dispLog = <<>>
    /\ dispCycle = 0

\* The peer sends a packet on the connection.
PeerSend(kind) ==
    /\ nSent < MaxPackets
    /\ nSent' = nSent + 1
    /\ wire' = Append(wire, [id |-> nSent + 1, needs |-> kind.needs,
                             maps |-> kind.maps])
    /\ UNCHANGED <<_pendingRequests, dispMapped, dispLog, dispCycle>>
    /\ UNCHANGED notDispVars

\* Receiver thread, DATA event.
HandleRequest ==
    /\ wire # <<>>
    /\ LET r == recvPacket(wire)
       IN /\ wire' = r.rest
          /\ ApplyDisp(_handleRequest(DispRec, r.packet))
    /\ UNCHANGED nSent
    /\ UNCHANGED notDispVars

\* Another thread of the process maps an object.
MapObject(o) ==
    /\ o \notin dispMapped
    /\ dispMapped' = dispMapped \cup {o}
    /\ UNCHANGED <<wire, nSent, _pendingRequests, dispLog, dispCycle>>
    /\ UNCHANGED notDispVars

NextDispatch ==
    \/ \E kind \in PacketKinds : PeerSend(kind)
    \/ HandleRequest
    \/ \E o \in ObjectIDs : MapObject(o)

\* ---------------------------------------------------------------------------
\* eqNet::Node, sessions: clients map sessions by name on one server node
\* (Node::mapSession, _cmdMapSession, _cmdMapSessionReply, _findSession,
\* _generateSessionID).
\* ---------------------------------------------------------------------------

\* Session* Node::_findSession( name ): the id of the session of that name on
\* the server, EQ_INVALID_ID if there is none.
_findSession(sessions, name) == sessions[name]

\* uint32_t Node::_generateSessionID(): the ids that are new and unique.
_generateSessionID(sessions) ==
    {id \in SessionIDs : \A name \in SessionNames : sessions[name] # id}

\* The id the server answers a map request for name with, fresh being the id
\* it would generate.
resolveSession_alwaysNew(sessions, name, fresh) == fresh

resolveSession(sessions, name, fresh) ==
    IF _findSession(sessions, name) # EQ_INVALID_ID
    THEN _findSession(sessions, name)
    ELSE fresh

InitSession ==
    /\ srvSessions = [name \in SessionNames |-> EQ_INVALID_ID]
    /\ sessRequests = <<>>
    /\ sessReplies = <<>>
    /\ obtained = {}
    /\ nMapCalls = 0

\* bool Node::mapSession( server, session, name ): the request is sent to the
\* server.
MapSession(c, name) ==
    /\ nMapCalls < MaxMapCalls
    /\ nMapCalls' = nMapCalls + 1
    /\ sessRequests' = Append(sessRequests, [client |-> c, name |-> name])
    /\ UNCHANGED <<srvSessions, sessReplies, obtained>>
    /\ UNCHANGED notSessVars

\* CommandResult Node::_cmdMapSession on the server
CmdMapSession ==
    /\ sessRequests # <<>>
    /\ LET req == Head(sessRequests)
       IN \E fresh \in _generateSessionID(srvSessions) :
            LET id == resolveSession(srvSessions, req.name, fresh)
            IN /\ srvSessions' = [srvSessions EXCEPT ![req.name] = id]
               /\ sessReplies' = Append(sessReplies,
                                        [client |-> req.client,
                                         name |-> req.name, id |-> id])
    /\ sessRequests' = Tail(sessRequests)
    /\ UNCHANGED <<obtained, nMapCalls>>
    /\ UNCHANGED notSessVars

\* CommandResult Node::_cmdMapSessionReply on the client: the call returns
\* with the id.
CmdMapSessionReply ==
    /\ sessReplies # <<>>
    /\ obtained' = obtained \cup {Head(sessReplies)}
    /\ sessReplies' = Tail(sessReplies)
    /\ UNCHANGED <<srvSessions, sessRequests, nMapCalls>>
    /\ UNCHANGED notSessVars

NextSession ==
    \/ \E c \in Clients, name \in SessionNames : MapSession(c, name)
    \/ CmdMapSession
    \/ CmdMapSessionReply

\* ---------------------------------------------------------------------------
\* eqPly Channel::_drawModel (src/examples/eqPly/channel.cpp 183-279): the
\* traversal of the model's kd-tree for the channel's range.  Tree nodes are
\* heap positions (root 1, children 2n and 2n+1); the leaves hold equal shares
\* of the model, so with L leaves the k-th leaf from the left has the range
\* [2(k-1), 2k] in units of 1/(2L), and an inner node the hull of its leaves.
\* ---------------------------------------------------------------------------
VISIBILITY_NONE    == "NONE"
VISIBILITY_PARTIAL == "PARTIAL"
VISIBILITY_FULL    == "FULL"
Visibilities == {VISIBILITY_NONE, VISIBILITY_PARTIAL, VISIBILITY_FULL}

RECURSIVE Pow2(_)
Pow2(k) == IF k = 0 THEN 1 ELSE 2 * Pow2(k - 1)

Positions == 1..(Pow2(TreeDepth + 1) - 1)

RECURSIVE DepthOf(_)
DepthOf(n) == IF n = 1 THEN 0 ELSE 1 + DepthOf(n \div 2)

RECURSIVE IsUnder(_, _)
IsUnder(n, a) == n = a \/ (n > a /\ IsUnder(n \div 2, a))

\* the model trees: every node but the root has its parent
Trees ==
    {t \in SUBSET Positions :
        /\ 1 \in t
        /\ Cardinality(t) <= MaxTreeNodes
        /\ \A n \in t \ {1} : (n \div 2) \in t}

\* VertexBufferBase::getLeft / getRight: NULL if there is no such child
getLeft(t, n)  == IF 2 * n \in t THEN 2 * n ELSE NULL
getRight(t, n) == IF 2 * n + 1 \in t THEN 2 * n + 1 ELSE NULL

LeavesOf(t) == {n \in t : getLeft(t, n) = NULL /\ getRight(t, n) = NULL}

\* position of the leftmost place below n on the deepest level: orders leaves
LeafKey(n) == n * Pow2(TreeDepth - DepthOf(n))

LeafIndex(t, l) ==
    Cardinality({m \in LeavesOf(t) : LeafKey(m) <= LeafKey(l)})

RangeUnits(t) == 2 * Cardinality(LeavesOf(t))

\* VertexBufferBase::getRange
getRange(t, n) ==
    LET idx == {LeafIndex(t, l) : l \in {m \in LeavesOf(t) : IsUnder(m, n)}}
        lo == CHOOSE i \in idx : \A j \in idx : i <= j
        hi == CHOOSE i \in idx : \A j \in idx : i >= j
    IN <<2 * (lo - 1), 2 * hi>>

\* eq::Range::ALL, in the units of the tree
RangeALL(t) == [start |-> 0, end |-> RangeUnits(t)]

\* the visibilities the culler can return for the spheres of a tree: the
\* sphere of a node lies within the sphere of its parent
Cullings(t) ==
    {vis \in [t -> Visibilities] :
        \A n \in t \ {1} :
            /\ vis[n \div 2] = VISIBILITY_FULL => vis[n] = VISIBILITY_FULL
            /\ vis[n \div 2] = VISIBILITY_NONE => vis[n] = VISIBILITY_NONE}

\* line 215-216: completely out of range check
outOfRange_strict(r, range) == r[1] > range.end \/ r[2] < range.start

outOfRange(r, range) == r[1] >= range.end \/ r[2] < range.start

\* line 227-229: fully in range
fullyInRange(t, r, range) ==
    range = RangeALL(t) \/ (r[1] >= range.start /\ r[2] < range.end)

\* line 247: a leaf is drawn by the channel its range starts in
leafInRange_after(r, range) == r[1] > range.start

leafInRange(r, range) == r[1] >= range.start

\* lines 209-272: the loop over the candidates; rendered collects the nodes
\* treeNode->render was called for
RECURSIVE drawLoop(_, _, _, _, _)
drawLoop(t, vis, range, candidates, rendered) ==
    IF candidates = <<>> THEN rendered
    ELSE
      LET treeNode == candidates[Len(candidates)]
          popped == SubSeq(candidates, 1, Len(candidates) - 1)
          r == getRange(t, treeNode)
          left == getLeft(t, treeNode)
          right == getRight(t, treeNode)
          pushLeft == IF left # NULL THEN Append(popped, left) ELSE popped
          pushed == IF right # NULL THEN Append(pushLeft, right) ELSE pushLeft
      IN IF outOfRange(r, range)
         THEN drawLoop(t, vis, range, popped, rendered)
         ELSE IF vis[treeNode] = VISIBILITY_NONE
         THEN drawLoop(t, vis, range, popped, rendered)
         ELSE IF vis[treeNode] = VISIBILITY_FULL /\ fullyInRange(t, r, range)
         THEN drawLoop(t, vis, range, popped, Append(rendered, treeNode))
         ELSE IF left = NULL /\ right = NULL
         THEN IF leafInRange(r, range)
              THEN drawLoop(t, vis, range, popped, Append(rendered, treeNode))
              ELSE drawLoop(t, vis, range, popped, rendered)
         ELSE drawLoop(t, vis, range, pushed, rendered)

\* void Channel::_drawModel( const Model* model ): starts with the root node
_drawModel(t, vis, range) == drawLoop(t, vis, range, <<1>>, <<>>)

\* no model loaded yet
NoDraw == [phase |-> "none", tree |-> {1},
           vis |-> [n \in {1} |-> VISIBILITY_NONE],
           range |-> [start |-> 0, end |-> 0], rendered |-> <<>>]

InitDraw == drawn = NoDraw

\* A model is loaded, the channel is given its range, and the culler is set
\* up for the frame (_initFrustum).
LoadModel ==
    /\ drawn.phase = "none"
    /\ \E t \in Trees :
         \E vis \in Cullings(t), start \in 0..RangeUnits(t),
            end \in 0..RangeUnits(t) :
             /\ start <= end
             /\ drawn' = [phase |-> "loaded", tree |-> t, vis |-> vis,
                          range |-> [start |-> start, end |-> end],
                          rendered |-> <<>>]
    /\ UNCHANGED notDrawVars

\* The channel draws the model.
FrameDraw ==
    /\ drawn.phase = "loaded"
    /\ drawn' = [drawn EXCEPT
                   !.phase = "drawn",
                   !.rendered = _drawModel(drawn.tree, drawn.vis, drawn.range)]
    /\ UNCHANGED notDrawVars

NextDraw ==
    \/ LoadModel
    \/ FrameDraw

\* ======================================================================
\* The pixel viewport of a server-side window and the init reply
\* (Window::setPixelViewport, Window::_cmdInitReply).  A pixel viewport is
\* the record of its x, w and h; the fractional viewport derived from it is
\* kept as the fractions of the pipe's extent it covers.
PixelViewport(x, w, h) == [x |-> x, w |-> w, h |-> h]
PixelViewports ==
    {PixelViewport(x, w, h) : x \in 0..MaxCoord, w \in 0..MaxSize,
                              h \in 0..MaxSize}

\* PixelViewport::isValid
isValid(pvp) == pvp.w > 0 /\ pvp.h > 0
InvalidPVP   == PixelViewport(0, 0, 0)

Frac(n, d)   == <<n, d>>
\* Viewport::invalidate
InvalidVP    == [x |-> Frac(0, 1), w |-> Frac(-1, 1), h |-> Frac(-1, 1)]
\* Viewport = PixelViewport / PixelViewport
Fraction(pvp, by) ==
    [x |-> Frac(pvp.x - by.x, by.w),
     w |-> Frac(pvp.w, by.w),
     h |-> Frac(pvp.h, by.h)]

\* what stands for the pipe's pixel viewport while Window::_pipe is NULL
NoPipe == PixelViewport(-1, 0, 0)

View == [pvp |-> _pvp, vp |-> _vp, pipe |-> pipePVP]

ApplyView(v) ==
    /\ _pvp'    = v.pvp
    /\ _vp'     = v.vp
    /\ pipePVP' = v.pipe

setPixelViewport_keepViewport(v, pvp) ==
    IF ~isValid(pvp) THEN v ELSE [v EXCEPT !.pvp = pvp]

\* Window::setPixelViewport
setPixelViewport(v, pvp) ==
    IF ~isValid(pvp) THEN v
    ELSE LET v1 == [v EXCEPT !.pvp = pvp, !.vp = InvalidVP]
         IN  IF v.pipe = NoPipe THEN v1
             ELSE IF isValid(v.pipe)
                  THEN [v1 EXCEPT !.vp = Fraction(pvp, v.pipe)]
                  ELSE v1

_cmdInitReplySteps_serveFirst(packet) ==
    <<"serveRequest">> \o
    (IF isValid(packet.pvp) THEN <<"setPixelViewport">> ELSE <<>>)

\* Window::_cmdInitReply: the statements the receiver thread executes for
\* the reply packet, in their order
_cmdInitReplySteps(packet) ==
    (IF isValid(packet.pvp) THEN <<"setPixelViewport">> ELSE <<>>)
    \o <<"serveRequest">>

NoReply   == [pvp |-> InvalidPVP, result |-> FALSE, requestID |-> EQ_INVALID_ID]
NoRequest == [id |-> EQ_INVALID_ID, served |-> FALSE, value |-> FALSE]
NotSeen   == [id |-> EQ_INVALID_ID]

InitView ==
    /\ _pvp = InvalidPVP
    /\ _vp = InvalidVP
    /\ pipePVP = NoPipe
    /\ viewRequest = NoRequest
    /\ viewInit = NoReply
    /\ viewReply = NoReply
    /\ viewPc = 1
    /\ viewOld = NotSeen
    /\ viewSeen = NotSeen
    /\ viewInits = 0

viewIdle == viewRequest.id = EQ_INVALID_ID

\* The loader gives the window its pipe, with the pipe's pixel viewport.
ViewSetPipe ==
    /\ viewIdle /\ viewInits = 0
    /\ pipePVP = NoPipe
    /\ \E p \in PixelViewports : pipePVP' = p
    /\ UNCHANGED <<_pvp, _vp, viewRequest, viewInit, viewReply, viewPc,
                   viewOld, viewSeen, viewInits>>
    /\ UNCHANGED notViewVars

\* The loader sets the pixel viewport of the config file.
ViewSetPixelViewport ==
    /\ viewIdle /\ viewInits = 0
    /\ \E pvp \in PixelViewports : ApplyView(setPixelViewport(View, pvp))
    /\ UNCHANGED <<viewRequest, viewInit, viewReply, viewPc, viewOld,
                   viewSeen, viewInits>>
    /\ UNCHANGED notViewVars

\* Window::_sendInit: the request is registered and the init packet sent
\* with the window's viewports.
ViewSendInit ==
    /\ viewIdle
    /\ viewInits < MaxInits
    /\ viewInits' = viewInits + 1
    /\ viewRequest' = [NoRequest EXCEPT !.id = viewInits + 1]
    /\ viewInit' = [pvp |-> _pvp, result |-> FALSE, requestID |-> viewInits + 1]
    /\ viewOld' = [id |-> viewInits + 1, pvp |-> _pvp, vp |-> _vp]
    /\ UNCHANGED <<_pvp, _vp, pipePVP, viewReply, viewPc, viewSeen>>
    /\ UNCHANGED notViewVars

\* The render window is created and replies with the result and the pixel
\* viewport of the window it got, or with none.
ViewRenderReply ==
    /\ viewInit # NoReply
    /\ \E pvp \in PixelViewports, result \in BOOLEAN :
          viewReply' = [pvp |-> pvp, result |-> result,
                        requestID |-> viewInit.requestID]
    /\ viewInit' = NoReply
    /\ viewPc' = 1
    /\ UNCHANGED <<_pvp, _vp, pipePVP, viewRequest, viewOld, viewSeen,
                   viewInits>>
    /\ UNCHANGED notViewVars

\* The receiver thread executes the next statement of Window::_cmdInitReply.
ViewCmdInitReply ==
    /\ viewReply # NoReply
    /\ viewPc <= Len(_cmdInitReplySteps(viewReply))
    /\ LET step == _cmdInitReplySteps(viewReply)[viewPc]
       IN  IF step = "setPixelViewport"
           THEN /\ ApplyView(setPixelViewport(View, viewReply.pvp))
                /\ UNCHANGED viewRequest
           ELSE /\ viewRequest' =
                     IF viewRequest.id = viewReply.requestID
                     THEN [viewRequest EXCEPT !.served = TRUE,
                                              !.value = viewReply.result]
                     ELSE viewRequest
                /\ UNCHANGED <<_pvp, _vp, pipePVP>>
    /\ viewPc' = viewPc + 1
    /\ UNCHANGED <<viewInit, viewReply, viewOld, viewSeen, viewInits>>
    /\ UNCHANGED notViewVars

\* Window::syncInit returns from waitRequest; the caller reads the viewports.
ViewSyncInit ==
    /\ viewRequest.served
    /\ viewSeen' = [id |-> viewRequest.id, pvp |-> _pvp, vp |-> _vp,
                    reply |-> viewReply.pvp, result |-> viewRequest.value]
    /\ viewRequest' = NoRequest
    /\ UNCHANGED <<_pvp, _vp, pipePVP, viewInit, viewReply, viewPc, viewOld,
                   viewInits>>
    /\ UNCHANGED notViewVars

NextView ==
    \/ ViewSetPipe
    \/ ViewSetPixelViewport
    \/ ViewSendInit
    \/ ViewRenderReply
    \/ ViewCmdInitReply
    \/ ViewSyncInit

\* ======================================================================
\* eqBase::RefPtr (src/lib/base/refPtr.h): smart pointers to reference
\* counted objects.  The pointee's ref() adds one to its count, unref()
\* takes one off and deletes the object when the count reaches zero.
RefPtrs  == 1..NRefPtrs
Pointees == 1..NPointees
\* what a T* can hold: NULL or the address of a pointee
Pointers == {NULL} \cup Pointees

Call(op, ptr, count) == [op |-> op, ptr |-> ptr, count |-> count]

Refs == [ptr     |-> _ptr,
         count   |-> refCount,
         deleted |-> refDeleted,
         zeroed  |-> refZeroed,
         calls   |-> <<>>]

ApplyRefs(r) ==
    /\ _ptr'       = r.ptr
    /\ refCount'   = r.count
    /\ refDeleted' = r.deleted
    /\ refZeroed'  = r.zeroed
    /\ refCalls'   = r.calls

\* T::ref
Referenced_ref(r, o) ==
    [r EXCEPT !.count[o] = @ + 1,
              !.calls    = Append(@, Call("ref", o, r.count[o] + 1))]

\* T::unref
Referenced_unref(r, o) ==
    LET c == r.count[o] - 1
    IN  [r EXCEPT !.count[o]   = c,
                  !.deleted[o] = @ \/ c = 0,
                  !.zeroed[o]  = IF c = 0 THEN @ + 1 ELSE @,
                  !.calls      = Append(@, Call("unref", o, c))]

\* RefPtr::ref
RefPtr_ref(r, p) ==
    IF r.ptr[p] # NULL THEN Referenced_ref(r, r.ptr[p]) ELSE r

\* RefPtr::unref
RefPtr_unref(r, p) ==
    IF r.ptr[p] # NULL THEN Referenced_unref(r, r.ptr[p]) ELSE r

\* RefPtr::RefPtr()
RefPtr_default(r, p) == [r EXCEPT !.ptr[p] = NULL]

\* RefPtr::RefPtr( T* ptr )
RefPtr_fromPointer(r, p, ptr) == RefPtr_ref([r EXCEPT !.ptr[p] = ptr], p)

RefPtr_copy_noRef(r, p, from) == [r EXCEPT !.ptr[p] = r.ptr[from]]

\* RefPtr::RefPtr( const RefPtr& from )
RefPtr_copy(r, p, from) == RefPtr_ref([r EXCEPT !.ptr[p] = r.ptr[from]], p)

\* RefPtr::~RefPtr
RefPtr_destroy(r, p) == RefPtr_unref(r, p)

assignPointer_unrefFirst(r, p, ptr) ==
    LET tmp == r.ptr[p]
        r1  == IF tmp # NULL THEN Referenced_unref(r, tmp) ELSE r
    IN  RefPtr_ref([r1 EXCEPT !.ptr[p] = ptr], p)

\* RefPtr::operator = ( T* ptr )
assignPointer(r, p, ptr) ==
    IF r.ptr[p] = ptr THEN r
    ELSE LET tmp == r.ptr[p]
             r1  == [r EXCEPT !.ptr[p] = ptr]
             r2  == RefPtr_ref(r1, p)
         IN  IF tmp # NULL THEN Referenced_unref(r2, tmp) ELSE r2

\* RefPtr::operator = ( const RefPtr& rhs )
assign(r, p, rhs) == assignPointer(r, p, r.ptr[rhs])

NoOp == [op |-> "none", p |-> 0, old |-> NULL, new |-> NULL]
Op(op, p, old, new) == [op |-> op, p |-> p, old |-> old, new |-> new]

InitRef ==
    /\ _ptr = [p \in RefPtrs |-> NULL]
    /\ refLive = {}
    /\ refCount = [o \in Pointers |-> 0]
    /\ refDeleted = [o \in Pointers |-> FALSE]
    /\ refZeroed = [o \in Pointers |-> 0]
    /\ refCalls = <<>>
    /\ refOp = NoOp

\* a T* the program may hold: NULL or an object that has not been deleted
Usable(ptr) == ~refDeleted[ptr]

RefDefault(p) ==
    /\ p \notin refLive
    /\ ApplyRefs(RefPtr_default(Refs, p))
    /\ refLive' = refLive \cup {p}
    /\ refOp' = Op("default", p, NULL, NULL)
    /\ UNCHANGED notRefVars

RefFromPointer(p, ptr) ==
    /\ p \notin refLive
    /\ Usable(ptr)
    /\ ApplyRefs(RefPtr_fromPointer(Refs, p, ptr))
    /\ refLive' = refLive \cup {p}
    /\ refOp' = Op("fromPointer", p, NULL, ptr)
    /\ UNCHANGED notRefVars

RefCopy(p, from) ==
    /\ p \notin refLive
    /\ from \in refLive
    /\ ApplyRefs(RefPtr_copy(Refs, p, from))
    /\ refLive' = refLive \cup {p}
    /\ refOp' = Op("copy", p, NULL, _ptr[from])
    /\ UNCHANGED notRefVars

RefAssign(p, rhs) ==
    /\ p \in refLive
    /\ rhs \in refLive
    /\ ApplyRefs(assign(Refs, p, rhs))
    /\ refOp' = Op("assign", p, _ptr[p], _ptr[rhs])
    /\ UNCHANGED refLive
    /\ UNCHANGED notRefVars

RefAssignPointer(p, ptr) ==
    /\ p \in refLive
    /\ Usable(ptr)
    /\ ApplyRefs(assignPointer(Refs, p, ptr))
    /\ refOp' = Op("assignPointer", p, _ptr[p], ptr)
    /\ UNCHANGED refLive
    /\ UNCHANGED notRefVars

RefDestroy(p) ==
    /\ p \in refLive
    /\ ApplyRefs([RefPtr_destroy(Refs, p) EXCEPT !.ptr[p] = NULL])
    /\ refLive' = refLive \ {p}
    /\ refOp' = Op("destroy", p, _ptr[p], NULL)
    /\ UNCHANGED notRefVars

NextRef ==
    \/ \E p \in RefPtrs : RefDefault(p)
    \/ \E p \in RefPtrs, ptr \in Pointers : RefFromPointer(p, ptr)
    \/ \E p, from \in RefPtrs : RefCopy(p, from)
    \/ \E p, rhs \in RefPtrs : RefAssign(p, rhs)
    \/ \E p \in RefPtrs, ptr \in Pointers : RefAssignPointer(p, ptr)
    \/ \E p \in RefPtrs : RefDestroy(p)

\* ======================================================================
\* Several eqPly channels draw the same model in one frame, each with its
\* range of a partition of [0,1) and with the same frustum.
DrawChannels == 1..NDrawChannels

\* the boundaries of the partitions of [0,1) of tree t into NDrawChannels
\* consecutive half-open intervals, in the units of the tree
Partitions(t) ==
    {c \in [1..(NDrawChannels + 1) -> 0..RangeUnits(t)] :
        /\ c[1] = 0
        /\ c[NDrawChannels + 1] = RangeUnits(t)
        /\ \A k \in DrawChannels : c[k] <= c[k + 1]}

\* Channel::getRange of channel k
RangeOf(cuts, k) == [start |-> cuts[k], end |-> cuts[k + 1]]

\* lines 209-272: the nodes the loop takes from the candidates, in order
RECURSIVE visitLoop(_, _, _, _, _)
visitLoop(t, vis, range, candidates, visited) ==
    IF candidates = <<>> THEN visited
    ELSE
      LET treeNode == candidates[Len(candidates)]
          popped == SubSeq(candidates, 1, Len(candidates) - 1)
          r == getRange(t, treeNode)
          left == getLeft(t, treeNode)
          right == getRight(t, treeNode)
          pushLeft == IF left # NULL THEN Append(popped, left) ELSE popped
          pushed == IF right # NULL THEN Append(pushLeft, right) ELSE pushLeft
          seen == Append(visited, treeNode)
      IN IF outOfRange(r, range)
         THEN visitLoop(t, vis, range, popped, seen)
         ELSE IF vis[treeNode] = VISIBILITY_NONE
         THEN visitLoop(t, vis, range, popped, seen)
         ELSE IF vis[treeNode] = VISIBILITY_FULL /\ fullyInRange(t, r, range)
         THEN visitLoop(t, vis, range, popped, seen)
         ELSE IF left = NULL /\ right = NULL
         THEN visitLoop(t, vis, range, popped, seen)
         ELSE visitLoop(t, vis, range, pushed, seen)

NoPart == [phase |-> "none", tree |-> {1},
           vis |-> [n \in {1} |-> VISIBILITY_NONE],
           cuts |-> [k \in 1..(NDrawChannels + 1) |-> 0],
           rendered |-> <<>>, visited |-> <<>>]

InitPart == part = NoPart

\* A model is loaded, the channels are given the ranges of a partition, and
\* the frustum of the frame is set.
LoadPartition ==
    /\ part.phase = "none"
    /\ \E t \in Trees :
         \E vis \in Cullings(t), cuts \in Partitions(t) :
             part' = [phase |-> "loaded", tree |-> t, vis |-> vis,
                      cuts |-> cuts, rendered |-> <<>>, visited |-> <<>>]
    /\ UNCHANGED notPartVars

\* The next channel draws the model.
PartDraw ==
    /\ part.phase = "loaded"
    /\ LET k     == Len(part.rendered) + 1
           range == RangeOf(part.cuts, k)
       IN  part' = [part EXCEPT
                      !.phase = IF k = NDrawChannels THEN "drawn" ELSE @,
                      !.rendered =
                          Append(@, _drawModel(part.tree, part.vis, range)),
                      !.visited =
                          Append(@, visitLoop(part.tree, part.vis, range,
                                              <<1>>, <<>>))]
    /\ UNCHANGED notPartVars

NextPart ==
    \/ LoadPartition
    \/ PartDraw

\* ======================================================================
\* eq::AGLEventHandler (src/lib/client/aglEventHandler.cpp): the one
\* handler of the process translates the Carbon mouse events of its windows.
\* A float of an HIPoint is kept as its number of half pixels.
kEventMouseMoved      == "kEventMouseMoved"
kEventMouseDragged    == "kEventMouseDragged"
kEventMouseDown       == "kEventMouseDown"
kEventMouseUp         == "kEventMouseUp"
kEventMouseWheelMoved == "kEventMouseWheelMoved"
MotionKinds == {kEventMouseMoved, kEventMouseDragged}
ButtonKinds == {kEventMouseDown, kEventMouseUp}
MouseKinds  == MotionKinds \cup ButtonKinds \cup {kEventMouseWheelMoved}

POINTER_MOTION         == "POINTER_MOTION"
POINTER_BUTTON_PRESS   == "POINTER_BUTTON_PRESS"
POINTER_BUTTON_RELEASE == "POINTER_BUTTON_RELEASE"
UNKNOWN                == "UNKNOWN"

\* static_cast< int32_t >( float ), of a float given in halves
ToInt32(halves) ==
    IF halves >= 0 THEN halves \div 2 ELSE 0 - ((0 - halves) \div 2)

\* the mouse deltas of the Carbon events, in half pixels
DeltasX == (0 - MaxDelta)..MaxDelta
DeltasY == {0, MaxDelta}
\* kEventParamWindowMouseLocation: above the window, on the menu bar, below it
LocationsY == {-2, 2 * EQ_AGL_MENUBARHEIGHT - 2, 2 * EQ_AGL_MENUBARHEIGHT}

CarbonEvent(kind, y, dx, dy) == [kind |-> kind, y |-> y, dx |-> dx, dy |-> dy]

\* the members of the handler and what a call has passed to _processEvent
Handler == [lastDX |-> _lastDX, lastDY |-> _lastDY, out |-> aglEvents]

ApplyHandler(h) ==
    /\ _lastDX'    = h.lastDX
    /\ _lastDY'    = h.lastDY
    /\ aglEvents'  = h.out

\* EventHandler::_processEvent
_processEvent(h, windowEvent) == [h EXCEPT !.out = Append(@, windowEvent)]

\* line 194
menuHeightOf(decoration) == IF decoration THEN EQ_AGL_MENUBARHEIGHT ELSE 0

\* pos.y < menuHeight, pos.y a float
onMenuBar(event, menuHeight) == event.y < 2 * menuHeight

\* lines 198-239: case kEventMouseMoved, kEventMouseDragged
motionEvent(h, event, menuHeight) ==
    IF onMenuBar(event, menuHeight) THEN h
    ELSE LET dx == ToInt32(event.dx)
             dy == ToInt32(event.dy)
             windowEvent == [type |-> POINTER_MOTION,
                             dx |-> dx, dy |-> dy]
         IN  _processEvent([h EXCEPT !.lastDX = dx, !.lastDY = dy],
                           windowEvent)

buttonEvent_keepDeltas(h, type, event, menuHeight) ==
    IF onMenuBar(event, menuHeight) THEN h
    ELSE LET windowEvent == [type |-> type,
                             dx |-> h.lastDX, dy |-> h.lastDY]
         IN  _processEvent(h, windowEvent)

\* lines 241-277 and 279-315: case kEventMouseDown, case kEventMouseUp
buttonEvent(h, type, event, menuHeight) ==
    IF onMenuBar(event, menuHeight) THEN h
    ELSE LET windowEvent == [type |-> type,
                             dx |-> h.lastDX, dy |-> h.lastDY]
         IN  _processEvent([h EXCEPT !.lastDX = 0, !.lastDY = 0],
                           windowEvent)

\* AGLEventHandler::_handleMouseEvent
_handleMouseEvent(h, event, decoration) ==
    LET menuHeight == menuHeightOf(decoration)
    IN  CASE event.kind \in MotionKinds ->
               motionEvent(h, event, menuHeight)
          [] event.kind = kEventMouseDown ->
               buttonEvent(h, POINTER_BUTTON_PRESS, event, menuHeight)
          [] event.kind = kEventMouseUp ->
               buttonEvent(h, POINTER_BUTTON_RELEASE, event, menuHeight)
          [] OTHER ->
               _processEvent(h, [type |-> UNKNOWN])

\* AGLEventHandler::AGLEventHandler
InitAgl ==
    /\ _lastDX = 0
    /\ _lastDY = 0
    /\ aglEvents = <<>>
    /\ aglKind = "none"
    /\ aglOnBar = FALSE

aglMore == Len(aglEvents) < MaxAglEvents

\* the pointer is above the window's content: on the menu bar of a
\* decorated window, or above the window
LocatedOnBar(y, decoration) ==
    \/ y < 0
    \/ decoration /\ y < 2 * EQ_AGL_MENUBARHEIGHT

\* Carbon delivers a mouse motion event of one of the windows.
AglMotion ==
    /\ aglMore
    /\ \E kind \in MotionKinds, y \in LocationsY, dx \in DeltasX,
          dy \in DeltasY, decoration \in BOOLEAN :
          /\ ApplyHandler(_handleMouseEvent(Handler,
                              CarbonEvent(kind, y, dx, dy), decoration))
          /\ aglKind' = kind
          /\ aglOnBar' = LocatedOnBar(y, decoration)
    /\ UNCHANGED notAglVars

\* Carbon delivers a mouse button or another mouse event of one of the
\* windows.
AglButton ==
    /\ aglMore
    /\ \E kind \in MouseKinds \ MotionKinds, y \in LocationsY,
          decoration \in BOOLEAN :
          /\ ApplyHandler(_handleMouseEvent(Handler,
                              CarbonEvent(kind, y, 0, 0), decoration))
          /\ aglKind' = kind
          /\ aglOnBar' = LocatedOnBar(y, decoration)
    /\ UNCHANGED notAglVars

NextAgl ==
    \/ AglMotion
    \/ AglButton

vars == <<coreVars, moreVars>>

Init ==
    /\ InitWindow /\ InitFrame /\ InitSwap /\ InitUsed /\ InitLocal
    /\ InitNet /\ InitDispatch /\ InitSession /\ InitDraw
    /\ InitView /\ InitRef /\ InitPart /\ InitAgl

SpecWindow == Init /\ [][NextWindow]_vars

\* The config thread goes on with the call it is in, the caller follows a
\* start with its sync, and the receiver threads handle what has arrived.
SpecWindowFail ==
    /\ Init /\ [][NextWindowFail]_vars
    /\ WF_vars(SyncInitBegin) /\ WF_vars(SyncInitStep)
    /\ WF_vars(SyncExitBegin) /\ WF_vars(SyncExitStep)
    /\ WF_vars(RenderHandle) /\ WF_vars(ServerHandle)

SpecFrame == Init /\ [][NextFrame]_vars

SpecSwap == Init /\ [][NextSwap]_vars

SpecUsed == Init /\ [][NextUsed]_vars

SpecLocal == Init /\ [][NextLocal]_vars

\* The node thread and the pipe threads are scheduled: each goes on once what
\* it waits for holds.
SpecLocalFair ==
    /\ Init /\ [][NextLocal]_vars
    /\ WF_vars(LocalNodeHandle)
    /\ \A p \in Pipes :
          /\ WF_vars(PipeFrameStart(p))
          /\ WF_vars(PipeFrameDrawFinish(p))
          /\ WF_vars(PipeFrameFinish(p))

SpecNet == Init /\ [][NextNet]_vars

\* the same with packets sent to the nodes
NextNetSend ==
    \/ NextNet
    \/ \E n \in NetNodes, env \in Envs : Send(n, "send", env, 0)
    \/ \E n \in NetNodes, env \in Envs, extra \in 0..MaxExtra :
         Send(n, "sendString", env, extra)

SpecNetSend == Init /\ [][NextNetSend]_vars

SpecDispatch == Init /\ [][NextDispatch]_vars

SpecSession == Init /\ [][NextSession]_vars

SpecDraw == Init /\ [][NextDraw]_vars

SpecView == Init /\ [][NextView]_vars

SpecRef == Init /\ [][NextRef]_vars

SpecPart == Init /\ [][NextPart]_vars

SpecAgl == Init /\ [][NextAgl]_vars

TypeOKWindow ==
    /\ _state \in States
    /\ chState \in [Channels -> States]
    /\ pc \in {"idle", "syncInit", "syncExit"}

\* ------------------------------------------------- reading the call log
Count(log, e)  == Cardinality({i \in 1..Len(log) : log[i] = e})
Has(log, e)    == \E i \in 1..Len(log) : log[i] = e
Before(log, a, b) ==        \* every a lies before every b
    \A i, j \in 1..Len(log) : (log[i] = a /\ log[j] = b) => i < j
NoWait(log)    == \A i \in 1..Len(log) : log[i].k # "wait"
WinWait        == Ev("wait", "window", 0)
ChWait(c)      == Ev("wait", "channel", c)
syncInitDone   == lastOp = "syncInit" /\ pc = "idle"
syncExitDone   == lastOp = "syncExit" /\ pc = "idle"

\* C4: window init is split-phase. startInit sends the window's init packet
\* and registers exactly one request of its own without waiting on anything;
\* syncInit waits for the syncInit of every used channel first and only then
\* on the window's own request.
C4_SplitPhaseInit ==
    /\ lastOp = "startInit" =>
          /\ Count(opLog, Ev("send", "WINDOW_INIT", 0)) = 1
          /\ Count(opLog, Ev("register", "window", 0)) = 1
          /\ _pendingRequestID \in DOMAIN requests
          /\ NoWait(opLog)
    /\ lastOp = "syncInit" =>
          /\ \A c \in Channels : Before(opLog, ChWait(c), WinWait)
          /\ Has(opLog, WinWait) =>
                \A c \in Channels : isUsed(c) => Count(opLog, ChWait(c)) = 1
          /\ syncInitDone => Count(opLog, WinWait) = 1

C4_Witness ==
    /\ syncInitDone
    /\ \A c \in Channels : isUsed(c) /\ Has(opLog, ChWait(c))

\* C5 as stated: syncExit waits for the syncExit of all its channels first and
\* only afterwards on the window's own exit request.
C5_ChannelsBeforeOwn ==
    lastOp = "syncExit" => \A c \in Channels : Before(opLog, ChWait(c), WinWait)

\* C5 amended: syncExit waits on the window's own exit request first and only
\* afterwards for the syncExit of each of its stopping channels; when it
\* returns, each of them has been waited for once.
C5_OwnBeforeChannels ==
    lastOp = "syncExit" =>
       /\ \A c \in Channels : Before(opLog, WinWait, ChWait(c))
       /\ (opLog # <<>>) => Count(opLog, WinWait) = 1
       /\ syncExitDone =>
             /\ Count(opLog, WinWait) = 1
             /\ \A c \in Channels :
                   /\ chState[c] # STATE_STOPPING
                   /\ Count(opLog, ChWait(c)) <= 1

C5_Witness ==
    /\ syncExitDone
    /\ \A c \in Channels : Has(opLog, ChWait(c))

\* C6: in startInit the window's own init packet goes out before any
\* channel's create or init packet, every used channel has been started when
\* startInit returns, and startInit waits on nothing.
C6_InitTopDown ==
    lastOp = "startInit" =>
       /\ Has(opLog, Ev("send", "WINDOW_INIT", 0))
       /\ \A c \in Channels :
             /\ Before(opLog, Ev("send", "WINDOW_INIT", 0),
                              Ev("send", "WINDOW_CREATE_CHANNEL", c))
             /\ Before(opLog, Ev("send", "WINDOW_INIT", 0),
                              Ev("send", "CHANNEL_INIT", c))
             /\ isUsed(c) =>
                   /\ Count(opLog, Ev("send", "CHANNEL_INIT", c)) = 1
                   /\ chState[c] = STATE_INITIALISING
                   /\ chPending[c] \in DOMAIN requests
       /\ NoWait(opLog)

C6_Witness ==
    /\ lastOp = "startInit"
    /\ \A c \in Channels : isUsed(c)
    /\ Len(opLog) > 2

\* C7 as stated: in startExit the window's own exit packet goes out before
\* the exit packets of its channels.
C7_OwnExitFirst ==
    lastOp = "startExit" =>
       \A c \in Channels : Before(opLog, Ev("send", "WINDOW_EXIT", 0),
                                         Ev("send", "CHANNEL_EXIT", c))

\* C7 amended: in startExit the exit packet of every channel that is not
\* stopped goes out before the window's own exit packet.
C7_ChannelExitFirst ==
    lastOp = "startExit" =>
       /\ Count(opLog, Ev("send", "WINDOW_EXIT", 0)) = 1
       /\ \A c \in Channels : Before(opLog, Ev("send", "CHANNEL_EXIT", c),
                                            Ev("send", "WINDOW_EXIT", 0))
       /\ \A c \in Channels :
             Has(opLog, Ev("send", "CHANNEL_EXIT", c)) <=>
                chState[c] = STATE_STOPPING

C7_Witness ==
    /\ lastOp = "startExit"
    /\ \A c \in Channels : Has(opLog, Ev("send", "CHANNEL_EXIT", c))

renderInitOk ==
    /\ winInitResult = "ok"
    /\ \A c \in Channels : isUsed(c) => chInitResult[c] = "ok"

\* C8 as stated: the window's state only moves along the cycle
\* STOPPED -> INITIALISING -> RUNNING -> STOPPING -> STOPPED.
C8_OnlyCycle ==
    [][_state' # _state =>
          <<_state, _state'>> \in {<<STATE_STOPPED, STATE_INITIALISING>>,
                                   <<STATE_INITIALISING, STATE_RUNNING>>,
                                   <<STATE_RUNNING, STATE_STOPPING>>,
                                   <<STATE_STOPPING, STATE_STOPPED>>}]_vars

\* C8 amended: the state is always one of the four and moves only along
\* STOPPED -> INITIALISING (startInit) -> RUNNING (successful syncInit) ->
\* STOPPING (startExit) -> STOPPED (syncExit), or from INITIALISING straight
\* to STOPPING when startExit follows a failed syncInit. It is RUNNING only
\* if the window's init reply and every used channel's init reported
\* success, and a failed syncInit leaves it INITIALISING.
C8_StateMachine ==
    /\ [](/\ _state \in States
          /\ _state = STATE_RUNNING => renderInitOk
          /\ (syncInitDone /\ ~lastResult) => _state = STATE_INITIALISING)
    /\ [][_state' # _state =>
            \/ /\ _state = STATE_STOPPED /\ _state' = STATE_INITIALISING
               /\ lastOp' = "startInit"
            \/ /\ _state = STATE_INITIALISING /\ _state' = STATE_RUNNING
               /\ lastOp' = "syncInit" /\ lastResult'
            \/ /\ _state = STATE_RUNNING /\ _state' = STATE_STOPPING
               /\ lastOp' = "startExit"
            \/ /\ _state = STATE_INITIALISING /\ _state' = STATE_STOPPING
               /\ lastOp' = "startExit" /\ ~lastResult
            \/ /\ _state = STATE_STOPPING /\ _state' = STATE_STOPPED
               /\ lastOp' = "syncExit"]_vars

C8_Witness ==
    /\ _state = STATE_STOPPING
    /\ lastOp = "startExit"
    /\ ~lastResult
    /\ winInitResult = "failed"

\* C9: what syncInit reads from the window's init request is the result field
\* of the init reply that carried the request id, so syncInit returns false
\* whenever the render side replied false; it returns true exactly when the
\* window and all its used channels replied true.
C9_InitReplyValue ==
    /\ (/\ lastOp \in {"startInit", "syncInit"}
        /\ isServed(_pendingRequestID)) =>
          /\ winInitResult # NoResult
          /\ ToBool(requests[_pendingRequestID].value) = (winInitResult = "ok")
    /\ syncInitDone =>
          /\ winInitResult = "failed" => ~lastResult
          /\ lastResult = renderInitOk
          /\ _pendingRequestID = EQ_INVALID_ID

C9_Witness ==
    /\ syncInitDone
    /\ winInitResult = "failed"
    /\ \A c \in Channels : isUsed(c) /\ chInitResult[c] = "ok"
    /\ ~lastResult

\* C10: if the render-side exit of the window or of one of its channels
\* fails, syncExit returns false.
C10_ExitFailurePropagates ==
    (/\ syncExitDone
     /\ \/ winExitResult = "failed"
        \/ \E c \in Channels : chExitResult[c] = "failed")
    => ~lastResult

\* ids the request handler holds, and the ids the window and its channels
\* keep as pending
RegisteredIDs == DOMAIN requests
PendingIDs    == ({_pendingRequestID} \cup {chPending[c] : c \in Channels})
                    \ {EQ_INVALID_ID}
UsedChannels  == {c \in Channels : isUsed(c)}

\* C11: every request id registered by startInit / startExit (one by the
\* window, one by each channel it starts) is waited on exactly once by the
\* matching syncInit / syncExit, also after an earlier wait reported failure:
\* the ids still registered are exactly those of the waits still to do, and
\* when the sync call has returned no id is registered or pending any more.
C11_EveryRequestWaitedOnce ==
    /\ RegisteredIDs = PendingIDs
    /\ (pc = "idle" /\ lastOp \in {"startInit", "startExit"}) =>
          /\ Cardinality(RegisteredIDs) = 1 + Cardinality(UsedChannels)
          /\ _pendingRequestID \in RegisteredIDs
          /\ \A c \in UsedChannels : chPending[c] \in RegisteredIDs
    /\ pc # "idle" =>
          /\ RegisteredIDs = {waitID(todo[i]) : i \in 1..Len(todo)}
          /\ Cardinality(RegisteredIDs) = Len(todo)
          /\ Len(todo) + Len(opLog) >= 1 + Cardinality(UsedChannels)
    /\ (syncInitDone \/ syncExitDone) =>
          /\ RegisteredIDs = {}
          /\ Count(opLog, WinWait) = 1
          /\ \A c \in Channels : Count(opLog, ChWait(c)) <= 1
    /\ syncInitDone =>
          \A c \in Channels : isUsed(c) <=> Has(opLog, ChWait(c))
    /\ syncExitDone =>
          \A c \in Channels : chState[c] = STATE_STOPPED

C11_Witness ==
    /\ syncInitDone
    /\ ~lastResult
    /\ UsedChannels = Channels
    /\ chInitResult[1] = "failed"
    /\ winInitResult = "failed"
    /\ RegisteredIDs = {}

\* C16: initialising a window that has zero channels fails: startInit
\* followed by syncInit returns false, and the window does not reach RUNNING.
C16_ZeroChannelInitFails ==
    nChannels = 0 =>
       /\ syncInitDone => ~lastResult
       /\ _state # STATE_RUNNING

\* C17: if the render node fails or its connection is lost while a window
\* init or exit request is pending, the pending request is served with
\* failure, so that syncInit / syncExit eventually returns, with false.
C17_FailureUnblocksSync ==
    (~renderAlive) ~>
        (/\ pc = "idle"
         /\ lastOp \in {"syncInit", "syncExit"}
         /\ ~lastResult)

\* ------------------------------------------------------ used refcounts
WindowsOf(p) == {w \in PipeWindows : _pipe[w] = p}
RECURSIVE SumUsed(_)
SumUsed(ws) ==
    IF ws = {} THEN 0
    ELSE LET w == CHOOSE x \in ws : TRUE IN _used[w] + SumUsed(ws \ {w})

\* C12: used refcounts propagate to the parent. After any sequence of
\* refUsed / unrefUsed calls on the windows attached to a pipe, the pipe's
\* used count is the sum of the used counts of its windows, so the pipe is
\* used iff at least one of its windows is used.
C12_UsedPropagates ==
    \A p \in Pipes :
       /\ pipeUsed[p] = SumUsed(WindowsOf(p))
       /\ (pipeUsed[p] # 0) <=> (\E w \in WindowsOf(p) : _used[w] # 0)

C12_Witness ==
    \E p \in Pipes :
       /\ Cardinality(WindowsOf(p)) >= 2
       /\ \E w, v \in WindowsOf(p) : _used[w] = 2 /\ _used[v] = 0
       /\ \E w \in PipeWindows : _pipe[w] = NULL /\ _used[w] = 1
       /\ pipeUsed[p] = 2

\* ------------------------------------------------- frame pipeline claims
\* frame f has been finished (frameFinish has run) on every used node
Completed(f) == \A n \in Nodes : released[n][f] >= 1
\* the frames the config has begun that are not finished on every node
InFlight     == {f \in 1..cfgCurrentFrame : ~Completed(f)}

\* C2: with latency L at most L+1 begun frames are unfinished at any time:
\* when the config has begun frame f+1, frame f-L and every frame before it
\* has been finished on every used node.
C2_LatencyWindow ==
    /\ Cardinality(InFlight) <= latency + 1
    /\ \A f \in 1..cfgCurrentFrame :
          f <= cfgCurrentFrame - 1 - latency => Completed(f)

C2_Witness ==
    /\ latency = 1
    /\ cfgCurrentFrame = 3
    /\ InFlight = {2, 3}

\* C3: on every used node frameFinish, and with it releaseFrame(f), runs
\* exactly once for every frame number f the config issued: never twice, and
\* once for every frame the node has reported or the config has flushed and
\* waited for; the config issues the frame numbers 1, 2, 3, ... in order.
C3_FinishExactlyOnce ==
    /\ \A n \in Nodes, f \in FrameNumbers :
          /\ released[n][f] <= 1
          /\ released[n][f] = 1 => f <= cfgCurrentFrame
          /\ f <= cfgNodeFinished[n] => released[n][f] = 1
          /\ (cfgPc = "idle" /\ f <= cfgFlushedFrame) => released[n][f] = 1
    /\ Len(issued) = cfgCurrentFrame
    /\ \A i \in 1..Len(issued) : issued[i] = i

C3_Witness ==
    /\ cfgPc = "idle"
    /\ latency = 1
    /\ cfgCurrentFrame = 2
    /\ cfgFlushedFrame = 2
    /\ \A n \in Nodes : released[n][1] = 1 /\ released[n][2] = 1

\* ---------------------------------------------------- swap group claims
\* the swap group of barrier b: the windows that hold it
Members(b) == {w \in Windows : InSeq(_swapBarriers[w], b)}
IsBarrierPkt(p) == p.type = "WINDOW_BARRIER"
IsSwapPkt(p)    == p.type = "WINDOW_SWAP"

\* C1: in a swap group of N windows sharing one barrier no window does its
\* frame-f swap before all N windows have entered the barrier for the f-th
\* time; and every update of a window queues its WINDOW_BARRIER packets, one
\* per swap barrier, ahead of its single WINDOW_SWAP packet.
C1_SwapAfterBarrier ==
    /\ \A b \in Barriers : \A w, v \in Members(b) :
          rSwapped[w] <= rEntered[v][b]
    /\ \A w \in Windows : LET log == lastUpdate[w] IN
          /\ \A i, j \in 1..Len(log) :
                (IsBarrierPkt(log[i]) /\ IsSwapPkt(log[j])) => i < j
          /\ log # <<>> =>
                /\ Cardinality({i \in 1..Len(log) : IsSwapPkt(log[i])}) = 1
                /\ Cardinality({i \in 1..Len(log) : IsBarrierPkt(log[i])})
                      = Len(_swapBarriers[w])

C1_Witness ==
    /\ \E b \in Barriers : Members(b) = Windows
    /\ \A w \in Windows : rSwapped[w] = 2

\* the place of an entry of an update's log in the order of Window::update
UpdateRank(e) ==
    CASE e.type = "WINDOW_START_FRAME" -> 1
      [] e.type = "CHANNEL_TASKS"      -> 2
      [] e.type = "commit"             -> 3
      [] e.type = "WINDOW_FINISH"      -> 4
      [] e.type = "WINDOW_BARRIER"     -> 5
      [] e.type = "WINDOW_SWAP"        -> 6
      [] e.type = "WINDOW_END_FRAME"   -> 7
CountType(log, type) == Cardinality({i \in 1..Len(log) : log[i].type = type})

\* C13: every Window::update sends WINDOW_START_FRAME first, then the update
\* tasks of every used channel, then commits the window's master barriers,
\* then sends the WINDOW_BARRIER packets, then WINDOW_SWAP, and
\* WINDOW_END_FRAME last; the swap never precedes a draw task or a barrier
\* of the same frame.
C13_UpdateOrder ==
    \A w \in Windows : LET log == lastUpdate[w] IN
       log # <<>> =>
          /\ log[1].type = "WINDOW_START_FRAME"
          /\ log[Len(log)].type = "WINDOW_END_FRAME"
          /\ CountType(log, "WINDOW_START_FRAME") = 1
          /\ CountType(log, "WINDOW_END_FRAME") = 1
          /\ CountType(log, "WINDOW_SWAP") = 1
          /\ \A c \in Channels :
                Count(log, SwapPkt("CHANNEL_TASKS", c, 0))
                   = IF swapChannelUsed(w, c) THEN 1 ELSE 0
          /\ CountType(log, "commit") = Len(_masterSwapBarriers[w])
          /\ CountType(log, "WINDOW_BARRIER") = Len(_swapBarriers[w])
          /\ \A i, j \in 1..Len(log) :
                i < j => UpdateRank(log[i]) <= UpdateRank(log[j])

C13_Witness ==
    \E w \in Windows :
       /\ lastUpdate[w] # <<>>
       /\ _masterSwapBarriers[w] # <<>>
       /\ CountType(lastUpdate[w], "CHANNEL_TASKS") >= 2
       /\ CountType(lastUpdate[w], "WINDOW_BARRIER") >= 1
       /\ swFrame = 2

\* the updates of window w the config has done so far
UpdatesDone(w) == IF w \in swUpdated THEN swFrame
                  ELSE IF swFrame = 0 THEN 0 ELSE swFrame - 1

\* C14: a window that belongs to no swap group (its swap-barrier list is
\* empty, also after resetSwapBarriers) sends no WINDOW_FINISH and no
\* WINDOW_BARRIER packet in update and exactly one WINDOW_SWAP per frame, and
\* its render window never enters a barrier; a barrier that
\* resetSwapBarriers gave back is in no window's list.
C14_NoGroupNoBarrier ==
    /\ \A w \in Windows : _swapBarriers[w] = <<>> =>
          /\ _masterSwapBarriers[w] = <<>>
          /\ \A i \in 1..Len(winQueue[w]) :
                winQueue[w][i].type \notin {"WINDOW_FINISH", "WINDOW_BARRIER"}
          /\ CountType(winQueue[w], "WINDOW_SWAP") + rSwapped[w]
                = UpdatesDone(w)
          /\ lastUpdate[w] # <<>> =>
                /\ CountType(lastUpdate[w], "WINDOW_FINISH") = 0
                /\ CountType(lastUpdate[w], "WINDOW_BARRIER") = 0
                /\ CountType(lastUpdate[w], "WINDOW_SWAP") = 1
          /\ \A b \in Barriers : rEntered[w][b] = 0
    /\ \A b \in barFree : Members(b) = {}

C14_Witness ==
    /\ \E b \in barFree : barDirty[b]
    /\ \E w \in Windows :
          /\ _swapBarriers[w] = <<>>
          /\ rSwapped[w] = 2
          /\ lastUpdate[w] # <<>>

\* the windows that hold barrier b in their master list
Masters(b) == {w \in Windows : InSeq(_masterSwapBarriers[w], b)}
Occurrences(q, x) == Cardinality({i \in 1..Len(q) : q[i] = x})

\* C15: all windows of a swap group share one barrier whose participant
\* count is the group size: after newSwapBarrier by one window and
\* addSwapBarrier with the returned barrier by k other windows the barrier's
\* count is k + 1, and the barrier is in the master list of exactly one
\* window, which is a member of the group.
C15_BarrierCountIsGroupSize ==
    \A b \in Barriers \ barFree :
       /\ barHeight[b] = Cardinality(Members(b))
       /\ Cardinality(Masters(b)) = 1
       /\ Masters(b) \subseteq Members(b)
       /\ \A w \in Windows :
             /\ Occurrences(_swapBarriers[w], b) <= 1
             /\ Occurrences(_masterSwapBarriers[w], b) <= 1

C15_Witness ==
    \E b \in Barriers \ barFree :
       /\ Members(b) = Windows
       /\ barHeight[b] = NWindows
       /\ NWindows >= 2
       /\ swPhase = "run"

\* ------------------------------------------- local synchronisation claims
\* the node thread handles a command of type cmd in this step
Handles(cmd) ==
    /\ lnQueue # <<>>
    /\ Head(lnQueue).cmd = cmd
    /\ lnQueue' = Tail(lnQueue)
\* this step releases the node's local synchronisation
LocalRelease == lnNode'.unlockedFrame # lnNode.unlockedFrame
\* ... for the frame of the command of type cmd it handles
ReleaseIn(cmd) ==
    /\ Handles(cmd)
    /\ lnNode'.unlockedFrame = Head(lnQueue).frameNumber

\* C18: under DRAW_SYNC the node releases its local synchronisation for
\* frame f in frameDrawFinish, and nowhere else, and only after every pipe
\* of the node has completed the draw of f and released its own local
\* synchronisation for f.
C18_DrawSyncRelease ==
    /\ [](threadModel = DRAW_SYNC =>
            \A p \in Pipes :
               /\ pipeUnlockedFrame[p] >= lnNode.unlockedFrame
               /\ PipeDrawnFrame(p) >= lnNode.unlockedFrame)
    /\ [][threadModel = DRAW_SYNC =>
            /\ LocalRelease => ReleaseIn("FRAME_DRAW_FINISH")
            /\ Handles("FRAME_DRAW_FINISH") => ReleaseIn("FRAME_DRAW_FINISH")
         ]_vars

C18_Witness ==
    /\ threadModel = DRAW_SYNC
    /\ lnNode.unlockedFrame = 2
    /\ \E p \in Pipes : pipeCurrentFrame[p] = 2 /\ pipeStage[p] = "drawn"

\* C19: under ASYNC the node releases its local synchronisation for frame f
\* inside frameStart, and nowhere else, and frameStart waits for no pipe:
\* the frame started last is always released, whatever the pipes have done.
C19_AsyncRelease ==
    /\ [](threadModel = ASYNC =>
            /\ lnNode.unlockedFrame = lnNode.currentFrame
            /\ (lnQueue # <<>> /\ Head(lnQueue).cmd = "FRAME_START") =>
                  nodeCanHandle(Head(lnQueue)))
    /\ [][threadModel = ASYNC =>
            /\ LocalRelease => ReleaseIn("FRAME_START")
            /\ Handles("FRAME_START") => ReleaseIn("FRAME_START")
         ]_vars

C19_Witness ==
    /\ threadModel = ASYNC
    /\ lnNode.unlockedFrame = 2
    /\ \A p \in Pipes : pipeCurrentFrame[p] = 0

\* C20: under LOCAL_SYNC the node releases its local synchronisation for
\* frame f in frameTasksFinish, not in frameStart or frameDrawFinish, and
\* only after every pipe has completed all tasks of f, readback and assembly
\* included, and released its own local synchronisation for f.
C20_LocalSyncRelease ==
    /\ [](threadModel = LOCAL_SYNC =>
            \A p \in Pipes :
               /\ pipeUnlockedFrame[p] >= lnNode.unlockedFrame
               /\ PipeFinishedFrame(p) >= lnNode.unlockedFrame)
    /\ [][threadModel = LOCAL_SYNC =>
            /\ LocalRelease => ReleaseIn("FRAME_TASKS_FINISH")
            /\ Handles("FRAME_TASKS_FINISH") =>
                  ReleaseIn("FRAME_TASKS_FINISH")
         ]_vars

C20_Witness ==
    /\ threadModel = LOCAL_SYNC
    /\ lnNode.unlockedFrame = 2
    /\ lnNode.currentFrame = 3
    /\ \E p \in Pipes : pipeCurrentFrame[p] = 3
    /\ \E p \in Pipes : pipeCurrentFrame[p] = 2

\* ---------------------------------------------------------------------------
\* C21  A failed connection attempt leaves the node's state unchanged: when
\*      connect(), initConnect() or syncConnect() has returned false, the
\*      state of the node at the return is its state before the call, and it
\*      is not CONNECTED.
ConnectOps == {"connect", "initConnect", "syncConnect"}

C21_FailedConnectKeepsState ==
    (netCall.op \in ConnectOps /\ netCall.done /\ ~netCall.ret)
        => (netCall.post = netCall.pre /\ netCall.post # STATE_CONNECTED)

\* connect() has launched the node, the launch timeout has elapsed before the
\* child connected back, and connect() has returned false.
C21_Witness ==
    /\ netCall.op = "connect" /\ netCall.done /\ ~netCall.ret
    /\ netCall.pre = STATE_STOPPED
    /\ child[netCall.node] # {}

\* ---------------------------------------------------------------------------
\* C22  On success initConnect leaves the node LAUNCHED or CONNECTED, and
\*      connect() and syncConnect leave it CONNECTED; a node goes from
\*      LAUNCHED to CONNECTED only by a connect-back that carries the request
\*      id of its outstanding launch.
SuccessfulConnectState ==
    (netCall.done /\ netCall.ret) =>
        /\ netCall.op = "initConnect"
              => netCall.post \in {STATE_LAUNCHED, STATE_CONNECTED}
        /\ netCall.op \in {"connect", "syncConnect"}
              => netCall.post = STATE_CONNECTED

ConnectedByLaunchID ==
    \A n \in NetNodes :
        (nodeState[n] = STATE_LAUNCHED /\ nodeState'[n] = STATE_CONNECTED)
            => /\ _launchID[n] # EQ_INVALID_ID
               /\ connectBack[n] = _launchID[n]
               /\ connectBack'[n] = EQ_INVALID_ID

C22_ConnectSuccessStates ==
    []SuccessfulConnectState /\ [][ConnectedByLaunchID]_vars

\* syncConnect has returned true for a node that an earlier launch, timed out
\* in connect(), has left a child of: two request ids were in play.
C22_Witness ==
    /\ netCall.op = "syncConnect" /\ netCall.done /\ netCall.ret
    /\ netCall.pre = STATE_LAUNCHED
    /\ netNextID > 2

\* ---------------------------------------------------------------------------
\* C23  Once a listen has succeeded, exactly one node of the process is
\*      LISTENING, and every other node is CONNECTED or LAUNCHED.
Listening == {n \in NetNodes : isLocal(NetRec, n)}

SendOps == {"send", "sendString"}

C24_SendAllOrNothing ==
    (netCall.op \in SendOps /\ netCall.done) =>
        /\ netCall.ret =>
              /\ netCall.post \in {STATE_CONNECTED, STATE_LISTENING}
              /\ netCall.written = netCall.total
        /\ netCall.post \notin {STATE_CONNECTED, STATE_LISTENING} =>
              (~netCall.ret /\ netCall.written = 0)
        /\ netCall.written < netCall.total => ~netCall.ret

\* The same for the overload without a payload only.
PlainSendAllOrNothing ==
    (netCall.op = "send" /\ netCall.done) =>
        /\ netCall.ret =>
              /\ netCall.post \in {STATE_CONNECTED, STATE_LISTENING}
              /\ netCall.written = netCall.size
        /\ netCall.post \notin {STATE_CONNECTED, STATE_LISTENING} =>
              (~netCall.ret /\ netCall.written = 0)
        /\ netCall.written < netCall.size => ~netCall.ret

\* ---------------------------------------------------------------------------
\* C30  checkConnection returns true without side effects when the node is
\*      CONNECTED or LISTENING; when the node is STOPPED or LAUNCHED it uses
\*      the connection descriptions to connect the node and returns true iff
\*      the node is connected afterwards.
CheckedFrom(states) ==
    netCall.op = "checkConnection" /\ netCall.done /\ netCall.pre \in states

C30_CheckConnectionConnects ==
    /\ CheckedFrom({STATE_CONNECTED, STATE_LISTENING}) =>
          (netCall.ret /\ ~netCall.connectCalled
              /\ netCall.post = netCall.pre)
    /\ CheckedFrom({STATE_STOPPED, STATE_LAUNCHED}) =>
          /\ netCall.connectCalled
          /\ netCall.ret <=> netCall.post = STATE_CONNECTED

\* What holds of a LAUNCHED node: false, and no attempt to connect it, also
\* while the connect-back of its child is waiting to be handled.
CheckConnectionOfLaunched ==
    CheckedFrom({STATE_LAUNCHED}) =>
        (~netCall.ret /\ ~netCall.connectCalled
            /\ netCall.post = STATE_LAUNCHED)

CheckConnectionOfOthers ==
    /\ CheckedFrom({STATE_CONNECTED, STATE_LISTENING}) =>
          (netCall.ret /\ ~netCall.connectCalled
              /\ netCall.post = netCall.pre)
    /\ CheckedFrom({STATE_STOPPED}) =>
          /\ netCall.connectCalled
          /\ netCall.ret <=> netCall.post = STATE_CONNECTED

\* ---------------------------------------------------------------------------
\* C25  Packets of one connection are dispatched in the order they were sent:
\*      for p1 sent before p2 the handler of p1 has returned HANDLED before
\*      the handler of p2 is run, also when p1 was answered with RESCHEDULE.
LogIndex == DOMAIN dispLog

HandledBefore(id, i) ==
    \E j \in LogIndex :
        j < i /\ dispLog[j].id = id /\ dispLog[j].result = COMMAND_HANDLED

C25_CompletedInSendOrder ==
    \A i \in LogIndex :
        \A id \in 1..(dispLog[i].id - 1) : HandledBefore(id, i)

\* C25, amended: the first dispatch of the packets is in the order they were
\*      sent, each received packet being dispatched as new exactly once and
\*      before any of its re-dispatches; a packet answered with RESCHEDULE
\*      does not hold back the packets sent after it.
FirstDispatches == SelectSeq(dispLog, LAMBDA e : e.new)

C25_DispatchedInSendOrder ==
    /\ Len(FirstDispatches) = dispCycle
    /\ \A k \in 1..dispCycle : FirstDispatches[k].id = k
    /\ \A i \in LogIndex :
          ~dispLog[i].new =>
              \E j \in LogIndex :
                  j < i /\ dispLog[j].id = dispLog[i].id /\ dispLog[j].new
    /\ \A k \in 1..Len(wire) : wire[k].id = dispCycle + k

\* A packet was answered with RESCHEDULE, and a packet sent after it was
\* handled before it was.
C25_Witness ==
    \E i, j \in LogIndex :
        /\ i < j
        /\ dispLog[i].id > dispLog[j].id
        /\ dispLog[i].result = COMMAND_HANDLED
        /\ dispLog[j].result = COMMAND_HANDLED

\* ---------------------------------------------------------------------------
\* C26  A packet answered with RESCHEDULE is put on the pending queue and is
\*      never lost: after each new packet the pending queue is traversed
\*      exactly once, each pending packet being re-dispatched once in the
\*      traversal, and a packet stays queued until its command returns
\*      something other than RESCHEDULE.
PendingIDsOf(q) == {q[k].id : k \in DOMAIN q}

EntriesOf(id) == {i \in LogIndex : dispLog[i].id = id}

IsHandled(id) ==
    \E i \in EntriesOf(id) : dispLog[i].result = COMMAND_HANDLED

\* the re-dispatches of packet id in the traversal of a cycle
Redispatches(id, cycle) ==
    {i \in EntriesOf(id) : ~dispLog[i].new /\ dispLog[i].cycle = cycle}

\* packet id was on the queue when the traversal of the cycle came to it
QueuedIn(id, cycle) ==
    /\ \E i \in EntriesOf(id) : dispLog[i].new /\ dispLog[i].cycle <= cycle
                                  /\ dispLog[i].result = COMMAND_RESCHEDULE
    /\ \A i \in EntriesOf(id) :
          dispLog[i].cycle < cycle => dispLog[i].result = COMMAND_RESCHEDULE

C26_RescheduledNeverLost ==
    /\ \A id \in 1..dispCycle :
          /\ id \in PendingIDsOf(_pendingRequests) <=> ~IsHandled(id)
          /\ Cardinality({i \in EntriesOf(id) :
                            dispLog[i].result = COMMAND_HANDLED}) <= 1
          /\ \A i, j \in EntriesOf(id) :
                (i < j) => dispLog[i].result = COMMAND_RESCHEDULE
    /\ \A id \in 1..dispCycle, cycle \in 1..dispCycle :
          Cardinality(Redispatches(id, cycle))
              = IF QueuedIn(id, cycle) THEN 1 ELSE 0
    /\ Len(_pendingRequests) = Cardinality(PendingIDsOf(_pendingRequests))

\* A packet has stayed on the queue over the traversals of two cycles and was
\* handled in a later one.
C26_Witness ==
    \E id \in 1..dispCycle :
        /\ IsHandled(id)
        /\ Cardinality({i \in EntriesOf(id) : ~dispLog[i].new
                          /\ dispLog[i].result = COMMAND_RESCHEDULE}) >= 2

\* ---------------------------------------------------------------------------
\* C27  Mapping a session by name is idempotent on the id: two mapSession
\*      calls with the same name on the same server obtain the same session
\*      id, and two different names never obtain the same id.
C27_SameNameSameID ==
    \A a, b \in obtained : (a.name = b.name) <=> (a.id = b.id)

\* Two clients have mapped the same name, and another name was mapped too.
C27_Witness ==
    \E a, b, c \in obtained :
        /\ a.client # b.client /\ a.name = b.name
        /\ c.name # a.name

\* ---------------------------------------------------------------------------
\* C28  In Channel::_drawModel, with the range [0,1) every leaf of the tree
\*      that passes frustum culling is rendered, and with an empty range
\*      [a,a) no tree node is rendered, for every tree and every a.
\* a leaf passes the culling if no sphere on its path from the root is outside
PassesCulling(t, vis, l) ==
    \A n \in t : IsUnder(l, n) => vis[n] # VISIBILITY_NONE

RenderedNodes == {drawn.rendered[i] : i \in DOMAIN drawn.rendered}

\* a leaf is rendered by the render call of itself or of a node above it
IsRendered(l) == \E n \in RenderedNodes : IsUnder(l, n)

C28_AllAndEmptyRange ==
    drawn.phase = "drawn" =>
        /\ drawn.range = RangeALL(drawn.tree) =>
              \A l \in LeavesOf(drawn.tree) :
                  PassesCulling(drawn.tree, drawn.vis, l) => IsRendered(l)
        /\ drawn.range.start = drawn.range.end => drawn.rendered = <<>>

\* A tree with an inner node has been drawn with the full range, some of its
\* leaves by the render call of a fully visible inner node and some by their
\* own after a partially visible one.
C28_Witness ==
    /\ drawn.phase = "drawn"
    /\ drawn.range = RangeALL(drawn.tree)
    /\ \E n \in RenderedNodes : n \notin LeavesOf(drawn.tree)
    /\ \E n \in RenderedNodes : n \in LeavesOf(drawn.tree)

\* A tree has been drawn with an empty range that starts where a leaf that
\* passes the culling starts.
EmptyRangeDrawn ==
    /\ drawn.phase = "drawn"
    /\ drawn.range.start = drawn.range.end
    /\ \E l \in LeavesOf(drawn.tree) :
          /\ PassesCulling(drawn.tree, drawn.vis, l)
          /\ getRange(drawn.tree, l)[1] = drawn.range.start

\* ---------------------------------------------------------------------------
\* C29  Node::waitFrameStarted(f) returns only after startFrame(n) has been
\*      executed with n >= f, and it returns eventually once that has
\*      happened; a pipe thread blocked in it never proceeds into a frame the
\*      node has not started.
\* a pipe thread is in a frame only if the node has started that frame
PipesWithinStartedFrames ==
    \A p \in Pipes : pipeCurrentFrame[p] <= lnNode.currentFrame

\* a pipe thread leaves waitFrameStarted(f) only with _currentFrame >= f
ReturnsAfterStart ==
    \A p \in Pipes :
        pipeCurrentFrame'[p] # pipeCurrentFrame[p] =>
            /\ pipeCurrentFrame'[p] = pipeCurrentFrame[p] + 1
            /\ lnNode.currentFrame >= pipeCurrentFrame'[p]

\* _currentFrame is written by startFrame( n ) of the FRAME_START handler only
StartedByStartFrame ==
    lnNode'.currentFrame # lnNode.currentFrame =>
        /\ lnQueue # <<>>
        /\ Head(lnQueue).cmd = "FRAME_START"
        /\ lnNode'.currentFrame = Head(lnQueue).frameNumber
        /\ lnNode'.currentFrame > lnNode.currentFrame

\* the pipe thread waiting for frame f gets into it once the node started it
WaitingFor(p, f) ==
    pipeStage[p] = "idle" /\ pipeCurrentFrame[p] + 1 = f

EventuallyReturns ==
    \A p \in Pipes :
        (WaitingFor(p, pipeCurrentFrame[p] + 1)
            /\ waitFrameStarted(lnNode, pipeCurrentFrame[p] + 1))
            ~> (pipeStage[p] = "started")

C29_WaitFrameStarted ==
    /\ []PipesWithinStartedFrames
    /\ [][ReturnsAfterStart /\ StartedByStartFrame]_vars
    /\ EventuallyReturns

\* A pipe thread is in the second frame, which the node has started, while
\* another one waits for a frame the node has yet to start.
C29_Witness ==
    \E p, q \in Pipes :
        /\ pipeCurrentFrame[p] = 2 /\ pipeStage[p] = "started"
        /\ WaitingFor(q, lnNode.currentFrame + 1)

\* ======================================================================
\* C31: a window has at most one outstanding request.  Wherever the parent
\* can call startInit or startExit (_sendInit / _sendExit) _pendingRequestID
\* is EQ_INVALID_ID, wherever it can call or is inside syncInit / syncExit
\* before the window's own wait it is a registered request, the window has
\* no request registered besides it, and every sync call returns with
\* _pendingRequestID reset, whatever it returns.
WindowRequests == DOMAIN requests \ {chPending[c] : c \in Channels}

CanSend == pc = "idle" /\ lastOp \in {"none", "syncInit", "syncExit"}

CanSync ==
    \/ pc = "idle" /\ lastOp \in {"startInit", "startExit"}
    \/ pc # "idle" /\ \E i \in 1..Len(todo) : todo[i].who = "window"

SendAssertHolds == CanSend => _pendingRequestID = EQ_INVALID_ID

SyncAssertHolds ==
    CanSync => /\ _pendingRequestID # EQ_INVALID_ID
               /\ _pendingRequestID \in DOMAIN requests

OneOutstanding == WindowRequests \subseteq {_pendingRequestID}

SyncReturns == pc # "idle" /\ pc' = "idle"

SyncResets == SyncReturns => _pendingRequestID' = EQ_INVALID_ID

C31_OneOutstandingRequest ==
    /\ [](SendAssertHolds /\ SyncAssertHolds /\ OneOutstanding)
    /\ [][SyncResets]_vars

\* startExit has sent the exit request of a window whose init failed
C31_Witness ==
    /\ pc = "idle" /\ lastOp = "startExit" /\ ~lastResult
    /\ _pendingRequestID # EQ_INVALID_ID
    /\ nCycles = MaxCycles

\* ======================================================================
\* C32: channel registration is balanced over a life cycle.  startInit
\* registers exactly the used channels with the config and announces each of
\* them with one WINDOW_CREATE_CHANNEL; between startInit and syncExit
\* exactly the used channels not yet destroyed are registered; when syncExit
\* has returned, also after a failed init, every used channel has been
\* deregistered once and announced with one WINDOW_DESTROY_CHANNEL and none
\* is registered; an unused channel gets neither.
Times(what, k, c) == Occurrences(opLog, Ev(k, what, c))

Announced(what, k, c) ==
    Times(what, k, c) = (IF isUsed(c) THEN 1 ELSE 0)

AfterStartInit == pc = "idle" /\ lastOp = "startInit"
AfterSyncExit  == pc = "idle" /\ lastOp = "syncExit"

CreatedInStartInit ==
    AfterStartInit =>
        /\ registered = UsedChannels
        /\ \A c \in Channels :
              /\ Announced("channel", "registerObject", c)
              /\ Announced("WINDOW_CREATE_CHANNEL", "send", c)
              /\ Times("channel", "deregisterObject", c) = 0
              /\ Times("WINDOW_DESTROY_CHANNEL", "send", c) = 0

DestroyedBySyncExit ==
    /\ registered = {}
    /\ \A c \in Channels :
          /\ Announced("channel", "deregisterObject", c)
          /\ Announced("WINDOW_DESTROY_CHANNEL", "send", c)
          /\ Times("channel", "registerObject", c) = 0
          /\ Times("WINDOW_CREATE_CHANNEL", "send", c) = 0

\* the step in which syncExit returns
SyncExitReturns == pc = "syncExit" /\ pc' = "idle"

RegisteredAreUsed ==
    /\ registered \subseteq UsedChannels
    /\ lastOp \in {"startInit", "syncInit", "startExit"}
          => registered = UsedChannels
    /\ AfterSyncExit => registered = {}
    /\ \A c \in Channels \ UsedChannels : chState[c] = STATE_STOPPED

C32_RegistrationBalanced ==
    /\ [](CreatedInStartInit /\ RegisteredAreUsed)
    /\ [][SyncExitReturns => DestroyedBySyncExit']_vars

\* the exit of a window whose init failed has returned; the window has a
\* used and an unused channel
C32_Witness ==
    /\ AfterSyncExit /\ winInitResult = Outcome(FALSE)
    /\ \E c \in UsedChannels : Times("channel", "deregisterObject", c) = 1
    /\ \E c \in Channels :
          /\ c <= nChannels /\ ~isUsed(c)
          /\ Times("channel", "deregisterObject", c) = 0

\* ======================================================================
\* C33: an init reply with a valid pixel viewport updates the window's pixel
\* viewport, and the fractional viewport derived from it, before the init
\* request is served: once the request is served, and when the caller of
\* syncInit reads them, the viewports are those of the reply; a reply with
\* an invalid pixel viewport leaves both as they were when the init started.
DerivedViewport(pvp) ==
    IF pipePVP # NoPipe /\ isValid(pipePVP) THEN Fraction(pvp, pipePVP)
    ELSE InvalidVP

ViewportsOf(r, pvp) ==
    IF isValid(pvp) THEN r.pvp = pvp /\ r.vp = DerivedViewport(pvp)
    ELSE r.pvp = viewOld.pvp /\ r.vp = viewOld.vp

UpdatedBeforeServed ==
    viewRequest.served => ViewportsOf(View, viewReply.pvp)

CallerObservesReply ==
    (viewSeen # NotSeen /\ viewSeen.id = viewOld.id) =>
        ViewportsOf(viewSeen, viewSeen.reply)

C33_ViewportBeforeServe == UpdatedBeforeServed /\ CallerObservesReply

\* syncInit has returned after a reply with a valid pixel viewport other
\* than the one the window had, in a window with a pipe
C33_Witness ==
    /\ viewSeen # NotSeen /\ viewSeen.id = viewOld.id
    /\ isValid(viewSeen.reply) /\ viewSeen.reply # viewOld.pvp
    /\ isValid(viewOld.pvp)
    /\ viewSeen.pvp = viewSeen.reply
    /\ viewSeen.vp # InvalidVP

\* syncInit has returned after a reply without a valid pixel viewport
InvalidReplySeen ==
    /\ viewSeen # NotSeen /\ viewSeen.id = viewOld.id
    /\ ~isValid(viewSeen.reply)
    /\ isValid(viewSeen.pvp)

\* ======================================================================
\* C34: a window adds to a barrier's participant count only when the
\* barrier is added to it (newSwapBarrier / addSwapBarrier): an update of a
\* window leaves the count of every barrier as it is, whatever the frame,
\* and the count changes only in a step that appends a barrier to a
\* window's swap-barrier list.  resetSwapBarriers calls releaseBarrier once
\* for each entry of the master list, each master barrier is listed once,
\* so every master barrier goes back to the node once, and both lists of
\* the window are empty afterwards.
UpdateStep == swUpdated' # swUpdated /\ swUpdated' # {}

AddStep ==
    \E w \in Windows : Len(_swapBarriers'[w]) = Len(_swapBarriers[w]) + 1

ResetStep ==
    \E w \in Windows : _swapBarriers[w] # <<>> /\ _swapBarriers'[w] = <<>>

\* the entries of the master lists that hold barrier b: one releaseBarrier
\* call each in resetSwapBarriers
MasterEntries(b) ==
    {<<w, i>> \in Windows \X (1..NBarriers) :
        i <= Len(_masterSwapBarriers[w]) /\ _masterSwapBarriers[w][i] = b}

UpdateKeepsCounts == UpdateStep => barHeight' = barHeight

CountsChangeOnAdd == barHeight' # barHeight => AddStep

ResetReleasesOnce ==
    ResetStep =>
        /\ \A b \in Barriers :
              Cardinality(MasterEntries(b)) = (IF b \in barFree THEN 0 ELSE 1)
        /\ barFree' = barFree \cup {b \in Barriers : MasterEntries(b) # {}}
        /\ barFree' = Barriers
        /\ \A w \in Windows :
              _masterSwapBarriers'[w] = <<>> /\ _swapBarriers'[w] = <<>>

C34_CountOnlyOnAdd ==
    [][UpdateKeepsCounts /\ CountsChangeOnAdd /\ ResetReleasesOnce]_vars

\* every window of a group of all windows has been updated for the last
\* frame, and the barrier's count is the group size
C34_Witness ==
    /\ swFrame = MaxSwapFrames /\ swUpdated = Windows
    /\ \E b \in Barriers \ barFree :
          /\ barHeight[b] = NWindows
          /\ barVersion[b] > 0

\* the swap groups have been reset: the barriers are back at the node
SwapBarriersReset ==
    /\ barFree = Barriers
    /\ \E b \in Barriers : barHeight[b] > 0
    /\ \A w \in Windows : _masterSwapBarriers[w] = <<>> /\ _swapBarriers[w] = <<>>

\* ======================================================================
\* C35: within one frame all windows of a swap group send the same barrier
\* version in their WINDOW_BARRIER packets, the version of the master
\* window's commit for that frame, in whatever order the windows of the
\* group are updated.
\* the versions window w has sent for barrier b in its update of this frame
VersionsSent(w, b) ==
    {lastUpdate[w][i].barrierVersion :
        i \in {j \in 1..Len(lastUpdate[w]) :
                  /\ lastUpdate[w][j].type = "WINDOW_BARRIER"
                  /\ lastUpdate[w][j].barrierID = b}}

\* the versions the master's commit of this frame has produced for b
VersionsCommitted(w, b) ==
    {lastUpdate[w][i].barrierVersion :
        i \in {j \in 1..Len(lastUpdate[w]) :
                  /\ lastUpdate[w][j].type = "commit"
                  /\ lastUpdate[w][j].barrierID = b}}

UpdatedMembers(b) == Members(b) \cap swUpdated

C35_SameVersionInFrame ==
    swPhase = "run" =>
        \A b \in Barriers \ barFree :
            \A w, v \in UpdatedMembers(b) :
                /\ VersionsSent(w, b) = VersionsSent(v, b)
                /\ v \in Masters(b) => VersionsSent(w, b) = VersionsCommitted(v, b)

\* ======================================================================
\* C36: on every render node, in every reachable state and with each of the
\* three thread models, last finished frame <= last locally released frame
\* <= last started frame, and none of the three counters ever decreases.
CountersOrdered(n) ==
    /\ _finishedFrame[n] <= _unlockedFrame[n]
    /\ _unlockedFrame[n] <= _currentFrame[n]

CountersGrow(n) ==
    /\ _finishedFrame'[n] >= _finishedFrame[n]
    /\ _unlockedFrame'[n] >= _unlockedFrame[n]
    /\ _currentFrame'[n]  >= _currentFrame[n]

C36_FrameCountersOrdered ==
    /\ [](\A n \in Nodes : CountersOrdered(n))
    /\ [][\A n \in Nodes : CountersGrow(n)]_vars

\* a node, local_sync, with the three counters apart
C36_Witness ==
    /\ threadModel = LOCAL_SYNC
    /\ \E n \in Nodes :
          /\ 0 < _finishedFrame[n]
          /\ _finishedFrame[n] < _unlockedFrame[n]
          /\ _unlockedFrame[n] < _currentFrame[n]

\* the other thread models, with frames finished
OrderedWhenAsync ==
    /\ threadModel = ASYNC
    /\ \E n \in Nodes : _finishedFrame[n] = MaxFrames

OrderedWhenDrawSync ==
    /\ threadModel = DRAW_SYNC
    /\ \E n \in Nodes : _finishedFrame[n] = MaxFrames

\* ======================================================================
\* C37: after any sequence of RefPtr constructions, copies, assignments and
\* destructions the reference count of every object equals the number of
\* live RefPtr instances that point to it; a RefPtr holding NULL calls
\* neither ref nor unref; and the count of an object reaches zero once,
\* when the last RefPtr to it is destroyed or reassigned.
PointingTo(o) == {p \in refLive : _ptr[p] = o}

CountIsLivePointers ==
    \A o \in Pointees : refCount[o] = Cardinality(PointingTo(o))

NullNeverCalls ==
    /\ \A i \in 1..Len(refCalls) : refCalls[i].ptr # NULL
    /\ (refOp.old = NULL /\ refOp.new = NULL) => refCalls = <<>>
    /\ refCount[NULL] = 0

ZeroOnce ==
    \A o \in Pointees :
        /\ refZeroed[o] <= 1
        /\ refDeleted[o] <=> refZeroed[o] = 1
        /\ refDeleted[o] => PointingTo(o) = {}

\* the step takes the last RefPtr away from object o
LastPointerLeaves(o) ==
    PointingTo(o) # {} /\ PointingTo(o)' = {}

ZeroWhenLastLeaves ==
    \A o \in Pointees :
        LastPointerLeaves(o) <=> (refZeroed'[o] = refZeroed[o] + 1)

C37_CountIsLivePointers ==
    /\ [](CountIsLivePointers /\ NullNeverCalls /\ ZeroOnce)
    /\ [][ZeroWhenLastLeaves]_vars

\* the last of several RefPtr instances to an object has been reassigned:
\* the object is deleted, a second object is still shared
C37_Witness ==
    /\ refOp.op \in {"assign", "assignPointer"}
    /\ refOp.old # NULL /\ refDeleted[refOp.old]
    /\ \E o \in Pointees : refCount[o] >= 2

\* ======================================================================
\* C38: RefPtr assignment calls ref on the new pointee before it calls
\* unref on the old one, and does nothing when both are the same object:
\* assigning a RefPtr to itself, or to another RefPtr of the same object,
\* makes no call and leaves every count as it is, and no assignment lets
\* the count of the object assigned drop to zero on the way.
IsAssignment(o) == o.op \in {"assign", "assignPointer"}

RefBeforeUnref ==
    IsAssignment(refOp) =>
        \A i, j \in 1..Len(refCalls) :
            (refCalls[i].op = "ref" /\ refCalls[j].op = "unref") => i < j

SameObjectNoCall ==
    (IsAssignment(refOp) /\ refOp.old = refOp.new) => refCalls = <<>>

NeverZeroOnTheWay ==
    IsAssignment(refOp) =>
        \A i \in 1..Len(refCalls) :
            refCalls[i].ptr = refOp.new => refCalls[i].count > 0

SameObjectKeepsCount ==
    (IsAssignment(refOp') /\ refOp'.old = refOp'.new /\ refCalls' = <<>>
        /\ <<refOp, refCalls>> # <<refOp', refCalls'>>)
        => (refCount' = refCount /\ refDeleted' = refDeleted /\ _ptr' = _ptr)

C38_AssignRefsBeforeUnref ==
    /\ [](RefBeforeUnref /\ SameObjectNoCall /\ NeverZeroOnTheWay)
    /\ [][SameObjectKeepsCount]_vars

\* the only RefPtr of an object has been assigned to itself
C38_Witness ==
    /\ refOp.op = "assign" /\ refOp.old = refOp.new /\ refOp.new # NULL
    /\ refCount[refOp.new] = 1
    /\ ~refDeleted[refOp.new]

\* a RefPtr has been assigned another RefPtr of the same object
AssignedSameObject ==
    /\ refOp.op = "assign" /\ refOp.old = refOp.new /\ refOp.new # NULL
    /\ refCount[refOp.new] = 2

\* an assignment has replaced one object by another
AssignedOtherObject ==
    /\ refOp.op = "assign" /\ Len(refCalls) = 2

\* ======================================================================
\* C39: for channels whose ranges partition [0,1) into consecutive
\* half-open intervals and that see the same frustum, every leaf of the
\* model tree that passes the culling is rendered by exactly one render
\* call of exactly one channel, the channel whose range contains the start
\* of the leaf's range, and a leaf that is culled by none; the loop of
\* _drawModel ends, having taken no tree node twice from the candidates.
\* the render calls of channel k that cover leaf l
RenderCalls(k, l) ==
    {i \in DOMAIN part.rendered[k] : IsUnder(l, part.rendered[k][i])}

\* the channel the start of the range of leaf l lies in
OwnsLeaf(k, l) ==
    LET start == getRange(part.tree, l)[1]
    IN  part.cuts[k] <= start /\ start < part.cuts[k + 1]

LeafDrawnOnce(l) ==
    \A k \in DrawChannels :
        Cardinality(RenderCalls(k, l)) =
            (IF OwnsLeaf(k, l) /\ PassesCulling(part.tree, part.vis, l)
             THEN 1 ELSE 0)

OneOwner(l) == Cardinality({k \in DrawChannels : OwnsLeaf(k, l)}) = 1

LoopTerminates(k) ==
    /\ Len(part.visited[k]) <= Cardinality(part.tree)
    /\ \A i, j \in DOMAIN part.visited[k] :
          part.visited[k][i] = part.visited[k][j] => i = j

C39_LeafDrawnByOneChannel ==
    part.phase = "drawn" =>
        /\ \A l \in LeavesOf(part.tree) : OneOwner(l) /\ LeafDrawnOnce(l)
        /\ \A k \in DrawChannels : LoopTerminates(k)

\* two ranges that meet inside a leaf: the first channel has rendered the
\* leaf; the second has taken it from the candidates and dropped it, and
\* has rendered another part of the tree
C39_Witness ==
    /\ part.phase = "drawn"
    /\ \A k \in DrawChannels : part.rendered[k] # <<>>
    /\ \E l \in LeavesOf(part.tree) :
          /\ getRange(part.tree, l)[1] < part.cuts[2]
          /\ part.cuts[2] < getRange(part.tree, l)[2]
          /\ RenderCalls(1, l) # {}
          /\ \E i \in DOMAIN part.visited[2] : part.visited[2][i] = l

\* a leaf starts where the range of the channel that has rendered it starts
LeafAtRangeStart ==
    /\ part.phase = "drawn"
    /\ \E l \in LeavesOf(part.tree) : \E k \in DrawChannels :
          /\ k > 1 /\ getRange(part.tree, l)[1] = part.cuts[k]
          /\ RenderCalls(k, l) # {}

\* ======================================================================
\* C40: a pointer button press or release event of the AGL event handler
\* reports as dx/dy the deltas of the last pointer motion event produced
\* since the button event before it, and 0/0 if there is none; the stored
\* deltas are 0 after each button event; a pointer event located on the
\* menu bar produces no event and leaves the stored deltas as they are.
IsButtonEvent(e) == e.type \in {POINTER_BUTTON_PRESS, POINTER_BUTTON_RELEASE}
IsMotionEvent(e) == e.type = POINTER_MOTION

Last(S) == CHOOSE i \in S : \A j \in S : j <= i

\* the motion events between the button event before event i and event i
MotionsBefore(i) ==
    LET buttons == {j \in 1..(i - 1) : IsButtonEvent(aglEvents[j])}
        from    == IF buttons = {} THEN 0 ELSE Last(buttons)
    IN  {k \in (from + 1)..(i - 1) : IsMotionEvent(aglEvents[k])}

DeltasBefore(i) ==
    IF MotionsBefore(i) = {} THEN <<0, 0>>
    ELSE <<aglEvents[Last(MotionsBefore(i))].dx,
           aglEvents[Last(MotionsBefore(i))].dy>>

ButtonReportsLastMotion ==
    \A i \in DOMAIN aglEvents :
        IsButtonEvent(aglEvents[i]) =>
            <<aglEvents[i].dx, aglEvents[i].dy>> = DeltasBefore(i)

\* the stored deltas are those the next button event has to report
StoredDeltas ==
    <<_lastDX, _lastDY>> = DeltasBefore(Len(aglEvents) + 1)

PointerKinds == MotionKinds \cup ButtonKinds

DroppedOnMenuBar ==
    (aglKind' \in PointerKinds /\ aglOnBar') =>
        /\ aglEvents' = aglEvents
        /\ _lastDX' = _lastDX /\ _lastDY' = _lastDY

ButtonResets ==
    (aglKind' \in ButtonKinds /\ ~aglOnBar') =>
        /\ Len(aglEvents') = Len(aglEvents) + 1
        /\ IsButtonEvent(aglEvents'[Len(aglEvents')])
        /\ _lastDX' = 0 /\ _lastDY' = 0

C40_ButtonReportsLastMotion ==
    /\ [](ButtonReportsLastMotion /\ StoredDeltas)
    /\ [][DroppedOnMenuBar /\ ButtonResets]_vars

\* two motion events with different deltas, then a button event that
\* reports those of the second and resets the stored deltas
C40_Witness ==
    /\ Len(aglEvents) = 3
    /\ IsMotionEvent(aglEvents[1]) /\ IsMotionEvent(aglEvents[2])
    /\ IsButtonEvent(aglEvents[3])
    /\ aglEvents[1].dx # aglEvents[2].dx
    /\ aglEvents[3].dx = aglEvents[2].dx /\ aglEvents[3].dx # 0
    /\ aglEvents[3].dy # 0
    /\ _lastDX = 0 /\ _lastDY = 0

\* a button event on the menu bar has been dropped while deltas were stored
ButtonDroppedOnBar ==
    /\ aglKind \in ButtonKinds /\ aglOnBar
    /\ _lastDX # 0
    /\ aglEvents # <<>> /\ IsMotionEvent(aglEvents[Len(aglEvents)])

\* a button event follows a button event without a motion between them
ButtonAfterButton ==
    \E i \in DOMAIN aglEvents :
        /\ i > 1 /\ IsButtonEvent(aglEvents[i]) /\ IsButtonEvent(aglEvents[i - 1])
        /\ aglEvents[i - 1].dx # 0 /\ aglEvents[i].dx = 0

====
